---- MODULE Spec2Model ----
(***************************************************************************)
(* Negotiation core of one PCTransport (pkg/rtc/transport.go) and the      *)
(* quality aggregator DynacastQuality.                                     *)
(*                                                                         *)
(* The transport's fields are the record t, the pion peer-connection it    *)
(* owns is the record pc (only what the transport reads back from it: the  *)
(* signaling state, which descriptions exist, the ICE gathering state,     *)
(* whether it is closed, the candidates it was given), timers holds the    *)
(* time.AfterFunc failure timers by the epoch they were armed for ("idle": *)
(* never armed or stopped, "armed", "expired": its function has started,   *)
(* "failed" / "notFailed": the function has read the negotiation state and *)
(* released the lock, "matched": it has found the epoch unchanged,         *)
(* "calling": it has found onNegotiationFailed not nil, "done": it has     *)
(* run). One step is one critical section of the code, or one access made  *)
(* without the lock; run holds the calls that are between two of their     *)
(* steps: srd the SetRemoteDescription that is inside its critical section *)
(* (it holds the lock across the steps of the candidate loop), settling    *)
(* the SetRemoteDescription calls past their Unlock and before             *)
(* onRemoteDescripitonSettled, hooked the remote offers that gathering     *)
(* hooks took out of the slot and have not yet passed to                   *)
(* SetRemoteDescription, forced the Negotiate(true) calls between the      *)
(* debouncer and CreateAndSendOffer, debounced the debounced functions     *)
(* started and not yet run, closing a Close between its critical section   *)
(* and pc.Close(), going the critical section that stands at a go          *)
(* t.onOffer statement (what it hands over, and whether lines 410-411 of   *)
(* SetRemoteDescription follow), aborted that the runtime has stopped the  *)
(* program. obs records what the callers observed: created counts the      *)
(* local offers produced, outstanding those produced and not answered,     *)
(* answered is the epoch of the last answered offer, failed[n] counts the  *)
(* calls of onNegotiationFailed by the timer of epoch n, delivered counts  *)
(* the candidates handed to AddICECandidate, settled says that a           *)
(* SetRemoteDescription has emptied the queue at line 401 and made its     *)
(* follow-up attempt, primed that a migration answer was installed and no  *)
(* offer was produced since; last is the result of the latest step, short  *)
(* that of the latest IsShortConnection. iceConnectedAt is 0 for the zero  *)
(* time.Time. The code of a critical section is an operator from a world   *)
(* (t, pc, timers, obs) to a world. Time is abstract: an armed timer may   *)
(* expire at any later step.                                               *)
(***************************************************************************)
EXTENDS Integers, Sequences, FiniteSets, TLC

\* ---------------------------------------------------------------- bounds
MaxOffers == 2      \* local offers produced in one run
MaxCands == 2       \* remote candidates delivered in one run
MaxHooks == 1       \* gathering-complete hooks in flight at once
MaxApplied == 3     \* candidates the peer-connection is given in one run
MaxInstant == 9     \* the instants of a run, in minutes after the zero time
MaxFired == 1       \* quality-timer functions started and not yet run
MaxCalls == 1       \* calls of one kind that are between two of their steps

\* ------------------------------------------------------------- constants
negotiationStateNone == 0
negotiationStateClient == 1
negotiationRetry == 2
shortConnectionThreshold == 2     \* 2 * time.Minute, in minutes

PublisherIDs == {"pubA", "pubB"}

\* livekit.VideoQuality, the protocol's enumeration
VideoQuality_LOW == 0
VideoQuality_MEDIUM == 1
VideoQuality_HIGH == 2
VideoQuality_OFF == 3
VideoQualities ==
    {VideoQuality_LOW, VideoQuality_MEDIUM, VideoQuality_HIGH, VideoQuality_OFF}

\* the goroutines that are followed step by step at once
ThreadIDs == {"g1", "g2", "g3"}

SubscriberIDs == {"subA", "subB"}
NodeIDs == {"nodeA"}

NoCredential == <<>>          \* currentOfferIceCredential == ""
NoSD == [type |-> "none"]     \* a nil *webrtc.SessionDescription

\* Remote descriptions handed to SetRemoteDescription. ufrags / pwds are the
\* ice-ufrag / ice-pwd values of the session level and the m-lines, in order;
\* ok says whether the peer-connection accepts the SDP (every one parses).
OfferSDs ==
    [type : {"offer"}, ufrags : {<<>>, <<"a">>, <<"b">>, <<"a", "b">>},
     pwds : {<<"p">>}, ok : BOOLEAN]
AnswerSDs == [type : {"answer"}, ufrags : {<<>>}, pwds : {<<>>}, ok : BOOLEAN]
RemoteSDs == OfferSDs \cup AnswerSDs
\* the descriptions of a client that never changes its ICE credential
SteadySDs == {sd \in RemoteSDs : sd.type = "answer" \/ sd.ufrags = <<"a">>}

\* What the WebRTC stack answers to the calls of one offer attempt: every call
\* succeeds, or the named one is the first to return an error (the offer
\* algorithm returns at the first error, so the later answers are never read).
StackOutcomes == {"ok", "reapplyFails", "createFails", "setLocalFails"}
AllOk == "ok"

VARIABLES t, pc, timers, hooks, adding, run, obs, last, short, d, dobs,
          locks, threads, handed

\* the transport and what surrounds it
tvars == <<t, pc, timers, hooks, adding, run, obs, last, short>>
\* the quality aggregator (DynacastQuality) and what surrounds it
dvars == <<d, dobs>>

\* the goroutines that are followed step by step, and the two locks
gvars == <<locks, threads, handed>>

vars == <<t, pc, timers, hooks, adding, run, obs, last, short, d, dobs,
          locks, threads, handed>>

\* the result of the offer algorithm when it has not run
NoResult ==
    [err |-> "nil", srd |-> "none", path |-> "none", restart |-> FALSE,
     emit |-> "none", reapply |-> "none"]

World == [t |-> t, pc |-> pc, timers |-> timers, obs |-> obs, r |-> NoResult]

\* err: the error returned ("fatal": the runtime has stopped the program);
\* path: the branch the offer algorithm took ("go": the step is the go
\* statement the algorithm had reached); restart: the ICERestart option
\* CreateOffer was called with; emit: what the algorithm brings to its go
\* t.onOffer statement and, in the step of that statement, what onOffer is
\* started with ("offer": the new offer, "local": the current local
\* description); reapply: how the re-application of the current remote
\* description ended ("none": it was not attempted).
Result(w, err, path, restart, emit) ==
    [w EXCEPT !.r = [err |-> err, srd |-> "none", path |-> path,
                     restart |-> restart, emit |-> emit, reapply |-> "none"]]

\* srd: where the latest step of a SetRemoteDescription left it: "credential",
\* "deferred", "rejected", "candidate": it returned there; "applied",
\* "draining": it is inside its critical section; "finished": it is past the
\* follow-up attempt of lines 405-409, and its Unlock at line 411 comes next
\* (after the go statement of the follow-up offer, if one was produced);
\* "settled": onRemoteDescripitonSettled has returned err.
SrdResult(w, err, srd) == [w EXCEPT !.r.err = err, !.r.srd = srd]

\* ------------------------------------------------------ peer-connection
\* JSEP signaling-state transitions the stack allows for a remote description.
pcCanSetRemote(p, type) ==
    /\ ~p.closed
    /\ \/ type = "offer" /\ p.signalingState \in {"stable", "have-remote-offer"}
       \/ type = "answer" /\ p.signalingState = "have-local-offer"

pcSetRemoteDescription(p, type) ==
    IF type = "offer"
    THEN [p EXCEPT !.signalingState = "have-remote-offer",
                   !.remoteDescription = TRUE]
    ELSE [p EXCEPT !.signalingState = "stable",
                   !.remoteDescription = TRUE,
                   !.currentRemoteDescription = "answer"]

pcCanSetLocalOffer(p) ==
    /\ ~p.closed
    /\ p.signalingState \in {"stable", "have-local-offer"}

pcSetLocalOffer(p) ==
    [p EXCEPT !.signalingState = "have-local-offer", !.localDescription = TRUE]

\* ------------------------------------------------------------ SDP helpers
AllEqual(s) == \A i \in 1..Len(s) : s[i] = s[1]

extractICECredential(sd) ==
    IF Len(sd.ufrags) = 0 THEN [err |-> "MissingIceUfrag", user |-> "", pwd |-> ""]
    ELSE IF Len(sd.pwds) = 0 THEN [err |-> "MissingIcePwd", user |-> "", pwd |-> ""]
    ELSE IF ~AllEqual(sd.ufrags) THEN [err |-> "ConflictingIceUfrag", user |-> "", pwd |-> ""]
    ELSE IF ~AllEqual(sd.pwds) THEN [err |-> "ConflictingIcePwd", user |-> "", pwd |-> ""]
    ELSE [err |-> "nil", user |-> sd.ufrags[1], pwd |-> sd.pwds[1]]

isRemoteOfferRestartICE(w, sd) ==
    LET c == extractICECredential(sd)
        credential == <<c.user, c.pwd>>
    IN  IF c.err # "nil"
        THEN [err |-> c.err, credential |-> NoCredential, restartICE |-> FALSE]
        ELSE [err |-> "nil", credential |-> credential,
              restartICE |-> /\ w.t.currentOfferIceCredential # NoCredential
                             /\ w.t.currentOfferIceCredential # credential]

\* ------------------------------------------------------------------ timers
\* Variant of StopTimer: the field is cleared and the timer is left running.
StopTimer_LeavesArmed(w) ==
    LET v == w.t.signalStateCheckTimer
    IN  IF v = 0 THEN w
        ELSE [w EXCEPT !.t.signalStateCheckTimer = 0]

StopTimer(w) ==
    LET v == w.t.signalStateCheckTimer
    IN  IF v = 0 THEN w
        ELSE [w EXCEPT !.timers[v] = IF @ = "armed" THEN "idle" ELSE @,
                       !.t.signalStateCheckTimer = 0]

\* --------------------------------------------------------- offer algorithm
\* Variant of produceOffer: restartAtNextOffer is cleared but does not force
\* the ICE restart.
produceOffer_ForgetsRestart(w, optRestart, x) ==
    LET restart == optRestart \/ w.t.previousAnswer
        w1 == [w EXCEPT !.t.previousAnswer = FALSE,
                        !.t.restartAtNextOffer = FALSE]
    IN  IF x = "createFails"
        THEN Result(w1, "stack", "createFailed", restart, "none")
        ELSE IF ~(x # "setLocalFails" /\ pcCanSetLocalOffer(w1.pc))
        THEN Result(w1, "stack", "setLocalFailed", restart, "none")
        ELSE LET negotiateVersion == w1.t.negotiateCounter + 1
                 w2 == [w1 EXCEPT !.pc = pcSetLocalOffer(@),
                                  !.t.negotiationState = negotiationStateClient,
                                  !.t.restartAfterGathering = FALSE,
                                  !.t.negotiationPending = {},
                                  !.t.negotiateCounter = negotiateVersion]
                 w3 == StopTimer(w2)
                 w4 == [w3 EXCEPT !.t.signalStateCheckTimer = negotiateVersion,
                                  !.timers[negotiateVersion] = "armed",
                                  !.obs.created = @ + 1,
                                  !.obs.outstanding = @ + 1,
                                  !.obs.primed = FALSE]
             IN  Result(w4, "nil", "created", restart, "offer")

\* Variant of produceOffer: the epoch counts the attempts, not the offers.
produceOffer_CountsAttempts(w, optRestart, x) ==
    LET restart == optRestart \/ w.t.previousAnswer \/ w.t.restartAtNextOffer
        negotiateVersion == w.t.negotiateCounter + 1
        w1 == [w EXCEPT !.t.previousAnswer = FALSE,
                        !.t.restartAtNextOffer = FALSE,
                        !.t.negotiateCounter = negotiateVersion]
    IN  IF x = "createFails"
        THEN Result(w1, "stack", "createFailed", restart, "none")
        ELSE IF ~(x # "setLocalFails" /\ pcCanSetLocalOffer(w1.pc))
        THEN Result(w1, "stack", "setLocalFailed", restart, "none")
        ELSE LET w2 == [w1 EXCEPT !.pc = pcSetLocalOffer(@),
                                  !.t.negotiationState = negotiationStateClient,
                                  !.t.restartAfterGathering = FALSE,
                                  !.t.negotiationPending = {}]
                 w3 == StopTimer(w2)
                 w4 == [w3 EXCEPT !.t.signalStateCheckTimer = negotiateVersion,
                                  !.timers[negotiateVersion] = "armed",
                                  !.obs.created = @ + 1,
                                  !.obs.outstanding = @ + 1,
                                  !.obs.primed = FALSE]
             IN  Result(w4, "nil", "created", restart, "offer")

\* Variant of produceOffer: the timer of the previous epoch is left armed.
produceOffer_KeepsTimer(w, optRestart, x) ==
    LET restart == optRestart \/ w.t.previousAnswer \/ w.t.restartAtNextOffer
        w1 == [w EXCEPT !.t.previousAnswer = FALSE,
                        !.t.restartAtNextOffer = FALSE]
    IN  IF x = "createFails"
        THEN Result(w1, "stack", "createFailed", restart, "none")
        ELSE IF ~(x # "setLocalFails" /\ pcCanSetLocalOffer(w1.pc))
        THEN Result(w1, "stack", "setLocalFailed", restart, "none")
        ELSE LET negotiateVersion == w1.t.negotiateCounter + 1
                 w2 == [w1 EXCEPT !.pc = pcSetLocalOffer(@),
                                  !.t.negotiationState = negotiationStateClient,
                                  !.t.restartAfterGathering = FALSE,
                                  !.t.negotiationPending = {},
                                  !.t.negotiateCounter = negotiateVersion]
                 w3 == w2
                 w4 == [w3 EXCEPT !.t.signalStateCheckTimer = negotiateVersion,
                                  !.timers[negotiateVersion] = "armed",
                                  !.obs.created = @ + 1,
                                  !.obs.outstanding = @ + 1,
                                  !.obs.primed = FALSE]
             IN  Result(w4, "nil", "created", restart, "offer")

\* Variant of produceOffer: the negotiation-pending set is cleared before
\* CreateOffer is called.
produceOffer_ClearsPendingFirst(w, optRestart, x) ==
    LET restart == optRestart \/ w.t.previousAnswer \/ w.t.restartAtNextOffer
        w1 == [w EXCEPT !.t.previousAnswer = FALSE,
                        !.t.restartAtNextOffer = FALSE,
                        !.t.negotiationPending = {}]
    IN  IF x = "createFails"
        THEN Result(w1, "stack", "createFailed", restart, "none")
        ELSE IF ~(x # "setLocalFails" /\ pcCanSetLocalOffer(w1.pc))
        THEN Result(w1, "stack", "setLocalFailed", restart, "none")
        ELSE LET negotiateVersion == w1.t.negotiateCounter + 1
                 w2 == [w1 EXCEPT !.pc = pcSetLocalOffer(@),
                                  !.t.negotiationState = negotiationStateClient,
                                  !.t.restartAfterGathering = FALSE,
                                  !.t.negotiationPending = {},
                                  !.t.negotiateCounter = negotiateVersion]
                 w3 == StopTimer(w2)
                 w4 == [w3 EXCEPT !.t.signalStateCheckTimer = negotiateVersion,
                                  !.timers[negotiateVersion] = "armed",
                                  !.obs.created = @ + 1,
                                  !.obs.outstanding = @ + 1,
                                  !.obs.primed = FALSE]
             IN  Result(w4, "nil", "created", restart, "offer")

\* lines 541-598: the flags that force an ICE restart, CreateOffer,
\* SetLocalDescription, then the bookkeeping of a produced offer.
produceOffer(w, optRestart, x) ==
    LET restart == optRestart \/ w.t.previousAnswer \/ w.t.restartAtNextOffer
        w1 == [w EXCEPT !.t.previousAnswer = FALSE,
                        !.t.restartAtNextOffer = FALSE]
    IN  IF x = "createFails"
        THEN Result(w1, "stack", "createFailed", restart, "none")
        ELSE IF ~(x # "setLocalFails" /\ pcCanSetLocalOffer(w1.pc))
        THEN Result(w1, "stack", "setLocalFailed", restart, "none")
        ELSE LET negotiateVersion == w1.t.negotiateCounter + 1
                 w2 == [w1 EXCEPT !.pc = pcSetLocalOffer(@),
                                  !.t.negotiationState = negotiationStateClient,
                                  !.t.restartAfterGathering = FALSE,
                                  !.t.negotiationPending = {},
                                  !.t.negotiateCounter = negotiateVersion]
                 w3 == StopTimer(w2)
                 w4 == [w3 EXCEPT !.t.signalStateCheckTimer = negotiateVersion,
                                  !.timers[negotiateVersion] = "armed",
                                  !.obs.created = @ + 1,
                                  !.obs.outstanding = @ + 1,
                                  !.obs.primed = FALSE]
             IN  Result(w4, "nil", "created", restart, "offer")

\* Variant of createAndSendOffer: the negotiation state gates nothing.
createAndSendOffer_Ungated(w, optRestart, x) ==
    IF ~w.t.onOffer THEN Result(w, "nil", "noCallback", FALSE, "none")
    ELSE IF w.pc.closed THEN Result(w, "nil", "closed", FALSE, "none")
    ELSE produceOffer(w, optRestart, x)

\* Variant of createAndSendOffer: an ICE restart requested during a
\* negotiation creates a new offer even when there is no current remote
\* description to recover with.
createAndSendOffer_RestartUngated(w, optRestart, x) ==
    IF ~w.t.onOffer THEN Result(w, "nil", "noCallback", FALSE, "none")
    ELSE IF w.pc.closed THEN Result(w, "nil", "closed", FALSE, "none")
    ELSE
    LET iceRestart == optRestart \/ w.t.restartAtNextOffer
    IN  IF iceRestart /\ w.pc.iceGatheringState = "gathering"
        THEN Result([w EXCEPT !.t.restartAfterGathering = TRUE],
                    "nil", "deferGathering", FALSE, "none")
        ELSE IF iceRestart /\ w.t.negotiationState # negotiationStateNone
        THEN IF w.pc.currentRemoteDescription = "none"
             THEN produceOffer(w, optRestart, x)
             ELSE IF ~(x # "reapplyFails"
                       /\ pcCanSetRemote(w.pc, w.pc.currentRemoteDescription))
                  THEN Result(w, "stack", "reapplyFailed", FALSE, "none")
                  ELSE produceOffer(
                         [w EXCEPT !.pc = pcSetRemoteDescription(
                                            @, w.pc.currentRemoteDescription)],
                         optRestart, x)
        ELSE IF ~iceRestart /\ w.t.negotiationState = negotiationStateClient
        THEN Result([w EXCEPT !.t.negotiationState = negotiationRetry],
                    "nil", "queued", FALSE, "none")
        ELSE IF ~iceRestart /\ w.t.negotiationState = negotiationRetry
        THEN Result(w, "nil", "skipped", FALSE, "none")
        ELSE produceOffer(w, optRestart, x)

createAndSendOffer(w, optRestart, x) ==
    IF ~w.t.onOffer THEN Result(w, "nil", "noCallback", FALSE, "none")
    ELSE IF w.pc.closed THEN Result(w, "nil", "closed", FALSE, "none")
    ELSE
    LET iceRestart == optRestart \/ w.t.restartAtNextOffer
    IN  IF iceRestart /\ w.pc.iceGatheringState = "gathering"
        THEN Result([w EXCEPT !.t.restartAfterGathering = TRUE],
                    "nil", "deferGathering", FALSE, "none")
        ELSE IF iceRestart /\ w.t.negotiationState # negotiationStateNone
        THEN IF w.pc.currentRemoteDescription = "none"
             THEN IF ~w.pc.localDescription
                  THEN Result(w, "ErrIceRestartWithoutLocalSDP", "noLocalSDP",
                              FALSE, "none")
                  ELSE Result([w EXCEPT !.t.negotiationState = negotiationRetry,
                                        !.t.restartAtNextOffer = TRUE],
                              "nil", "resendLocal", FALSE, "local")
             ELSE IF ~(x # "reapplyFails"
                       /\ pcCanSetRemote(w.pc, w.pc.currentRemoteDescription))
                  THEN [Result(w, "stack", "reapplyFailed", FALSE, "none")
                          EXCEPT !.r.reapply = "failed"]
                  ELSE [produceOffer(
                          [w EXCEPT !.pc = pcSetRemoteDescription(
                                             @, w.pc.currentRemoteDescription)],
                          optRestart, x)
                          EXCEPT !.r.reapply = "ok"]
        ELSE IF ~iceRestart /\ w.t.negotiationState = negotiationStateClient
        THEN Result([w EXCEPT !.t.negotiationState = negotiationRetry],
                    "nil", "queued", FALSE, "none")
        ELSE IF ~iceRestart /\ w.t.negotiationState = negotiationRetry
        THEN Result(w, "nil", "skipped", FALSE, "none")
        ELSE produceOffer(w, optRestart, x)

\* ---------------------------------------------------- SetRemoteDescription
\* Variant of negotiateAfterAnswer: the queued request is forgotten.
negotiateAfterAnswer_Never(w, lastState, sd, x) == w

\* lines 405-410: the follow-up offer of a request queued while the answer
\* was awaited
negotiateAfterAnswer(w, lastState, sd, x) ==
    IF lastState = negotiationRetry /\ sd.type = "answer"
    THEN createAndSendOffer(w, FALSE, x)
    ELSE w

\* Variant of setRemoteDescriptionApply: a description the stack rejects
\* empties the candidate queue.
setRemoteDescriptionApply_DropsQueue(w, sd) ==
    LET chk == IF sd.type = "offer" THEN isRemoteOfferRestartICE(w, sd)
               ELSE [err |-> "nil", credential |-> NoCredential, restartICE |-> FALSE]
        w0 == [w EXCEPT !.r = NoResult]
    IN  IF chk.err # "nil" THEN SrdResult(w0, chk.err, "credential")
        ELSE IF chk.restartICE /\ w.pc.iceGatheringState = "gathering"
        THEN SrdResult([w0 EXCEPT !.t.pendingRestartIceOffer = sd], "nil", "deferred")
        ELSE IF ~(sd.ok /\ pcCanSetRemote(w.pc, sd.type))
        THEN SrdResult([w0 EXCEPT !.t.pendingCandidates = <<>>], "stack", "rejected")
        ELSE
        LET w1 == [w0 EXCEPT
                     !.pc = pcSetRemoteDescription(@, sd.type),
                     !.t.currentOfferIceCredential =
                         IF @ = NoCredential \/ chk.restartICE
                         THEN chk.credential ELSE @,
                     !.t.negotiationState = negotiationStateNone,
                     !.obs.outstanding = IF sd.type = "answer" THEN 0 ELSE @,
                     !.obs.answered = IF sd.type = "answer"
                                      THEN w.t.negotiateCounter ELSE @]
        IN  SrdResult(StopTimer(w1), "nil", "applied")

\* lines 354-393: the checks of a remote offer, the description handed to the
\* peer-connection, the credential, the negotiation state and the timer
setRemoteDescriptionApply(w, sd) ==
    LET chk == IF sd.type = "offer" THEN isRemoteOfferRestartICE(w, sd)
               ELSE [err |-> "nil", credential |-> NoCredential, restartICE |-> FALSE]
        w0 == [w EXCEPT !.r = NoResult]
    IN  IF chk.err # "nil" THEN SrdResult(w0, chk.err, "credential")
        ELSE IF chk.restartICE /\ w.pc.iceGatheringState = "gathering"
        THEN SrdResult([w0 EXCEPT !.t.pendingRestartIceOffer = sd], "nil", "deferred")
        ELSE IF ~(sd.ok /\ pcCanSetRemote(w.pc, sd.type))
        THEN SrdResult(w0, "stack", "rejected")
        ELSE
        LET w1 == [w0 EXCEPT
                     !.pc = pcSetRemoteDescription(@, sd.type),
                     !.t.currentOfferIceCredential =
                         IF @ = NoCredential \/ chk.restartICE
                         THEN chk.credential ELSE @,
                     !.t.negotiationState = negotiationStateNone,
                     !.obs.outstanding = IF sd.type = "answer" THEN 0 ELSE @,
                     !.obs.answered = IF sd.type = "answer"
                                      THEN w.t.negotiateCounter ELSE @]
        IN  SrdResult(StopTimer(w1), "nil", "applied")

\* lines 395-400, one turn of the loop: the buffered candidate c is handed to
\* the peer-connection, which takes it (cok) or returns an error
drainCandidate(w, c, cok) ==
    IF cok /\ ~w.pc.closed
    THEN SrdResult([w EXCEPT !.pc.candidates = Append(@, c)], "nil", "draining")
    ELSE SrdResult(w, "stack", "candidate")

\* lines 401-410: the queue is emptied and a queued request gets its offer
setRemoteDescriptionEnd(w, lastState, sd, x) ==
    LET w3 == [w EXCEPT !.t.pendingCandidates = <<>>]
        w4 == negotiateAfterAnswer(w3, lastState, sd, x)
    IN  SrdResult([w4 EXCEPT !.obs.settled = TRUE], "nil", "finished")

\* ------------------------------------------------------------------ locks
\* locks[l] is the sync.RWMutex of the transport ("t") or of the aggregator
\* ("d"): w is who holds it for writing ("none": nobody; Caller: the
\* SetRemoteDescription of run.srd; otherwise a goroutine of threads), r the
\* goroutines that hold it for reading.
Caller == "caller"
Holds(id, l) == locks[l].w = id \/ id \in locks[l].r
CanLock(l) == locks[l].w = "none" /\ locks[l].r = {}
CanRLock(l) == locks[l].w = "none"
Locked(l, id) == [locks EXCEPT ![l].w = id]
Unlocked(l, id) == [locks EXCEPT ![l].w = "none", ![l].r = @ \ {id}]

\* -------------------------------------------------------------------- Init
\* lines 36-42 of DynacastQuality: empty maps, the zero values of the other
\* fields, no callback
NewDynacastQuality ==
    [initialized |-> FALSE,
     maxSubscriberQuality |-> <<>>,
     maxSubscriberNodeQuality |-> <<>>,
     maxSubscribedQuality |-> VideoQuality_LOW,
     maxQualityTimer |-> "nil",
     onSubscribedMaxQualityChange |-> FALSE]

NoObserved ==
    [latest |-> <<>>, computed |-> <<>>, grace |-> FALSE,
     reported |-> FALSE, stopped |-> FALSE, same |-> FALSE]

\* No goroutine is inside an operation, both locks are free.
GInit ==
    /\ locks = [l \in {"t", "d"} |-> [w |-> "none", r |-> {}]]
    /\ threads = [id \in ThreadIDs |-> [kind |-> "idle", at |-> "idle", arg |-> <<>>]]
    /\ handed = <<>>

\* lines 203-223: the zero values of the fields, no callback
NewPCTransport ==
    [onOffer |-> FALSE,
     onNegotiationFailed |-> FALSE,
     onRemoteDescripitonSettled |-> FALSE,
     iceConnectedAt |-> 0,
     negotiationState |-> negotiationStateNone,
     negotiateCounter |-> 0,
     restartAfterGathering |-> FALSE,
     restartAtNextOffer |-> FALSE,
     previousAnswer |-> FALSE,
     pendingCandidates |-> <<>>,
     negotiationPending |-> {},
     currentOfferIceCredential |-> NoCredential,
     pendingRestartIceOffer |-> NoSD,
     signalStateCheckTimer |-> 0,
     debouncedNegotiate |-> "none"]

NewPeerConnection ==
    [signalingState |-> "stable",
     localDescription |-> FALSE,
     remoteDescription |-> FALSE,
     currentRemoteDescription |-> "none",
     iceGatheringState |-> "new",
     closed |-> FALSE,
     candidates |-> <<>>]

\* no SetRemoteDescription is inside its critical section
NoCall == [sd |-> NoSD, lastState |-> negotiationStateNone, next |-> 0]

\* no critical section stands at a go t.onOffer statement
NoGo == [emit |-> "none", settle |-> FALSE]

NoRun ==
    [srd |-> NoCall, settling |-> 0, hooked |-> <<>>, forced |-> 0,
     debounced |-> 0, closing |-> FALSE, going |-> NoGo, aborted |-> FALSE]

NoneObserved ==
    [created |-> 0, outstanding |-> 0, answered |-> 0,
     delivered |-> 0, settled |-> FALSE, primed |-> FALSE,
     failed |-> [v \in 1..MaxOffers |-> 0]]

\* what surrounds the two objects before any operation
Around ==
    /\ timers = [v \in 1..MaxOffers |-> "idle"]
    /\ hooks = 0
    /\ adding = 0
    /\ run = NoRun
    /\ obs = NoneObserved
    /\ last = NoResult
    /\ short = <<FALSE, 0>>
    /\ dobs = NoObserved
    /\ GInit

\* The two objects as their constructors return them.
Init ==
    /\ t = NewPCTransport
    /\ pc = NewPeerConnection
    /\ d = NewDynacastQuality
    /\ Around

\* The two objects after their owner has registered every callback (lines
\* 436-448 of the transport, 56-58 of the aggregator) and before it uses
\* them: the state Init reaches by OnOffer, OnNegotiationFailed,
\* OnRemoteDescripitonSettled and OnSubscribedMaxQualityChange.
InitRegistered ==
    /\ t = [NewPCTransport EXCEPT !.onOffer = TRUE,
                                  !.onNegotiationFailed = TRUE,
                                  !.onRemoteDescripitonSettled = TRUE]
    /\ pc = NewPeerConnection
    /\ d = [NewDynacastQuality EXCEPT !.onSubscribedMaxQualityChange = TRUE]
    /\ Around

\* The runtime has not stopped the program: a go statement or a call that
\* finds a nil function is a fatal error, after which no goroutine runs.
Alive == ~run.aborted

\* a world becomes the next state
CommitFields(w) ==
    /\ Alive
    /\ t' = w.t
    /\ pc' = w.pc
    /\ timers' = w.timers

CommitWorld(w) ==
    /\ CommitFields(w)
    /\ obs' = w.obs
    /\ last' = w.r

\* a step made without the transport's lock
NoLock(w) ==
    /\ CommitWorld(w)
    /\ UNCHANGED <<short, dvars, gvars>>

\* a critical section of the transport's lock that is one step: from its Lock
\* to its Unlock nothing is done that another goroutine can see or change
\* without the lock
InLock(w) ==
    /\ CanLock("t")
    /\ NoLock(w)

CanOffer == t.negotiateCounter < MaxOffers

\* A critical section that runs the offer algorithm (w is its result), from
\* its Lock to its Unlock or, when the algorithm has an offer to hand over,
\* to the go statement of line 518 or 596, which reads t.onOffer a second
\* time with the lock still held. run0 is run without what the caller took
\* from it.
OfferSection(w, run0) ==
    /\ CanLock("t")
    /\ CommitWorld(w)
    /\ IF w.r.emit = "none"
       THEN /\ run' = run0
            /\ UNCHANGED locks
       ELSE /\ run' = [run0 EXCEPT !.going = [emit |-> w.r.emit, settle |-> FALSE]]
            /\ locks' = Locked("t", Caller)
    /\ UNCHANGED <<short, dvars, threads, handed>>

\* ----------------------------------------------------------------- actions
\* lines 436-438: the field is written without the lock; f says whether the
\* function is not nil
OnOffer(f) ==
    /\ NoLock([World EXCEPT !.t.onOffer = f])
    /\ UNCHANGED <<hooks, adding, run>>

\* lines 446-448: written without the lock
OnNegotiationFailed(f) ==
    /\ NoLock([World EXCEPT !.t.onNegotiationFailed = f])
    /\ UNCHANGED <<hooks, adding, run>>

\* lines 440-444
OnRemoteDescripitonSettled(f) ==
    /\ InLock([World EXCEPT !.t.onRemoteDescripitonSettled = f])
    /\ UNCHANGED <<hooks, adding, run>>

\* lines 479-483
CreateAndSendOffer(optRestart, x) ==
    /\ CanOffer
    /\ OfferSection(createAndSendOffer(World, optRestart, x), run)
    /\ UNCHANGED <<hooks, adding>>

\* lines 518 and 596, go t.onOffer(...): the field, which OnOffer writes
\* without the lock, is read again. The goroutine of onOffer is started and
\* the critical section goes on to its Unlock (after a follow-up offer:
\* lines 410-411, where onRemoteDescripitonSettled is read); with the field
\* nil by now the offer is handed to nobody and the runtime stops the program.
GoOnOfferStatement ==
    /\ run.going # NoGo
    /\ IF t.onOffer
       THEN /\ CommitWorld(Result(World, "nil", "go", FALSE, run.going.emit))
            /\ run' = [run EXCEPT
                         !.going = NoGo,
                         !.settling = IF run.going.settle
                                         /\ t.onRemoteDescripitonSettled
                                      THEN @ + 1 ELSE @]
            /\ locks' = Unlocked("t", Caller)
       ELSE /\ CommitWorld(Result(World, "fatal", "go", FALSE, "none"))
            /\ run' = [run EXCEPT !.aborted = TRUE]
            /\ UNCHANGED locks
    /\ UNCHANGED <<hooks, adding, short, dvars, threads, handed>>

\* Variant of Negotiate: a forced negotiation leaves the debounced request.
Negotiate_NoCancel(force) ==
    /\ IF force
       THEN /\ run.forced < MaxCalls
            /\ NoLock(World)
            /\ run' = [run EXCEPT !.forced = @ + 1]
       ELSE /\ NoLock([World EXCEPT !.t.debouncedNegotiate = "offer"])
            /\ UNCHANGED run
    /\ UNCHANGED <<hooks, adding>>

\* lines 456-469 up to the call of line 461: the debouncer, which has a mutex
\* of its own, is given the no-op (force) or the offer request
Negotiate(force) ==
    /\ IF force
       THEN /\ run.forced < MaxCalls
            /\ NoLock([World EXCEPT !.t.debouncedNegotiate = "noop"])
            /\ run' = [run EXCEPT !.forced = @ + 1]
       ELSE /\ NoLock([World EXCEPT !.t.debouncedNegotiate = "offer"])
            /\ UNCHANGED run
    /\ UNCHANGED <<hooks, adding>>

\* line 461: the CreateAndSendOffer(nil) of a Negotiate(true)
NegotiateCreateAndSendOffer(x) ==
    /\ run.forced > 0
    /\ CanOffer
    /\ OfferSection(createAndSendOffer(World, FALSE, x),
                    [run EXCEPT !.forced = @ - 1])
    /\ UNCHANGED <<hooks, adding>>

\* The 150 ms of the debouncer have passed: its timer starts the function it
\* was given last, and a later call no longer replaces it.
DebounceFire ==
    /\ t.debouncedNegotiate # "none"
    /\ t.debouncedNegotiate = "offer" => run.debounced < MaxCalls
    /\ NoLock([World EXCEPT !.t.debouncedNegotiate = "none"])
    /\ run' = [run EXCEPT !.debounced =
                   IF t.debouncedNegotiate = "offer" THEN @ + 1 ELSE @]
    /\ UNCHANGED <<hooks, adding>>

\* lines 464-466: the debounced function, a CreateAndSendOffer(nil)
DebouncedCreateAndSendOffer(x) ==
    /\ run.debounced > 0
    /\ CanOffer
    /\ OfferSection(createAndSendOffer(World, FALSE, x),
                    [run EXCEPT !.debounced = @ - 1])
    /\ UNCHANGED <<hooks, adding>>

\* lines 353-393: SetRemoteDescription from its Lock to an early return, or
\* to the head of the candidate loop with the lock held; run0 is run without
\* what the caller took from it
SetRemoteDescriptionEnter(sd, run0) ==
    /\ CanLock("t")
    /\ run.settling < MaxCalls
    /\ Len(pc.candidates) + Len(t.pendingCandidates) <= MaxApplied
    /\ (t.negotiationState = negotiationRetry /\ sd.type = "answer") => CanOffer
    /\ LET w == setRemoteDescriptionApply(World, sd)
       IN  /\ CommitWorld(w)
           /\ IF w.r.srd = "applied"
              THEN /\ run' = [run0 EXCEPT !.srd =
                                 [sd |-> sd, lastState |-> t.negotiationState,
                                  next |-> 1]]
                   /\ locks' = Locked("t", Caller)
              ELSE /\ run' = run0
                   /\ UNCHANGED locks
    /\ UNCHANGED <<hooks, adding, short, dvars, threads, handed>>

SetRemoteDescriptionCall(sd) == SetRemoteDescriptionEnter(sd, run)

\* lines 395-400, one turn of the loop; an error unlocks and returns
DrainCandidate(cok) ==
    /\ run.srd # NoCall
    /\ run.srd.next <= Len(t.pendingCandidates)
    /\ LET w == drainCandidate(World, t.pendingCandidates[run.srd.next], cok)
       IN  /\ CommitWorld(w)
           /\ IF w.r.srd = "candidate"
              THEN /\ run' = [run EXCEPT !.srd = NoCall]
                   /\ locks' = Unlocked("t", Caller)
              ELSE /\ run' = [run EXCEPT !.srd.next = @ + 1]
                   /\ UNCHANGED locks
    /\ UNCHANGED <<hooks, adding, short, dvars, threads, handed>>

\* lines 401-411: the end of the critical section, up to its Unlock or to
\* the go statement of the follow-up offer. x is read only when the answer
\* triggers the queued follow-up offer.
SetRemoteDescriptionEnd(x) ==
    /\ run.srd # NoCall
    /\ run.srd.next > Len(t.pendingCandidates)
    /\ (run.srd.lastState = negotiationRetry /\ run.srd.sd.type = "answer")
          \/ x = AllOk
    /\ LET w == setRemoteDescriptionEnd(World, run.srd.lastState, run.srd.sd, x)
       IN  /\ CommitWorld(w)
           /\ IF w.r.emit = "none"
              THEN /\ run' = [run EXCEPT !.srd = NoCall,
                                         !.settling = IF t.onRemoteDescripitonSettled
                                                      THEN @ + 1 ELSE @]
                   /\ locks' = Unlocked("t", Caller)
              ELSE /\ run' = [run EXCEPT !.srd = NoCall,
                                         !.going = [emit |-> w.r.emit,
                                                    settle |-> TRUE]]
                   /\ UNCHANGED locks
    /\ UNCHANGED <<hooks, adding, short, dvars, threads, handed>>

\* what a user callback that returns an error can return
CallbackOutcomes == {"nil", "callback"}

\* lines 413-415: onRemoteDescripitonSettled is invoked after the Unlock and
\* what it returns (e) is what SetRemoteDescription returns
InvokeOnRemoteDescripitonSettled(e) ==
    /\ run.settling > 0
    /\ NoLock(SrdResult(World, e, "settled"))
    /\ run' = [run EXCEPT !.settling = @ - 1]
    /\ UNCHANGED <<hooks, adding>>

\* lines 316-327. The check of RemoteDescription() is made before the lock is
\* taken: a candidate that saw none is appended in a later step; one that saw
\* a description is handed to the peer-connection without the lock.
AddICECandidate(cok) ==
    /\ adding = 0
    /\ obs.delivered < MaxCands
    /\ LET c == obs.delivered + 1
           w == [World EXCEPT !.obs.delivered = c]
       IN  IF ~pc.remoteDescription
           THEN /\ NoLock(w)
                /\ adding' = c
           ELSE /\ NoLock(IF cok /\ ~pc.closed
                          THEN [w EXCEPT !.pc.candidates = Append(@, c)]
                          ELSE [w EXCEPT !.r.err = "stack"])
                /\ adding' = 0
    /\ UNCHANGED <<hooks, run>>

\* lines 318-320
AddICECandidateAppend ==
    /\ adding # 0
    /\ InLock([World EXCEPT !.t.pendingCandidates = Append(@, adding)])
    /\ adding' = 0
    /\ UNCHANGED <<hooks, run>>

\* Variant of AddNegotiationPending: the set holds the latest publisher only.
AddNegotiationPending_Replaces(publisherID) ==
    /\ InLock([World EXCEPT !.t.negotiationPending = {publisherID}])
    /\ UNCHANGED <<hooks, adding, run>>

\* lines 450-454
AddNegotiationPending(publisherID) ==
    /\ InLock([World EXCEPT !.t.negotiationPending = @ \cup {publisherID}])
    /\ UNCHANGED <<hooks, adding, run>>

\* lines 739-748 with initPCWithPreviousAnswer / preparePC (600-709). kind:
\* "media": the answer has no application m-line, only transceivers are added;
\* "primed": preparePC ran to its end; "createFailed": its CreateOffer failed;
\* "remoteFailed": its offer was set locally, the rewritten answer was refused.
SetPreviousAnswerKinds == {"media", "primed", "createFailed", "remoteFailed"}

preparePC(p, kind) ==
    IF kind \in {"media", "createFailed"} THEN p
    ELSE IF ~pcCanSetLocalOffer(p) THEN p
    ELSE IF kind = "remoteFailed" THEN pcSetLocalOffer(p)
    ELSE pcSetRemoteDescription(pcSetLocalOffer(p), "answer")

SetPreviousAnswer(kind) ==
    /\ InLock(IF ~pc.remoteDescription /\ ~t.previousAnswer
              THEN [World EXCEPT !.t.previousAnswer = TRUE,
                                 !.pc = preparePC(@, kind),
                                 !.obs.primed = TRUE]
              ELSE World)
    /\ UNCHANGED <<hooks, adding, run>>

\* The peer-connection reports a new ICE gathering state; Complete starts the
\* hook of lines 282-305 as a goroutine.
OnICEGatheringStateChange(state) ==
    /\ ~pc.closed
    /\ \/ state = "gathering" /\ pc.iceGatheringState # "gathering"
       \/ state = "complete" /\ pc.iceGatheringState = "gathering"
                             /\ hooks + Len(run.hooked) < MaxHooks
    /\ NoLock([World EXCEPT !.pc.iceGatheringState = state])
    /\ hooks' = IF state = "complete" THEN hooks + 1 ELSE hooks
    /\ UNCHANGED <<adding, run>>

\* Variant of GatheringHook: the deferred local restart is retried as a plain
\* offer request.
GatheringHook_NoRestart(x) ==
    /\ hooks > 0
    /\ hooks' = hooks - 1
    /\ IF t.restartAfterGathering
       THEN /\ CanOffer
            /\ OfferSection(createAndSendOffer(World, FALSE, x), run)
       ELSE /\ x = AllOk
            /\ InLock([World EXCEPT !.t.pendingRestartIceOffer = NoSD])
            /\ run' = [run EXCEPT !.hooked =
                           IF t.pendingRestartIceOffer # NoSD
                           THEN Append(@, t.pendingRestartIceOffer) ELSE @]
    /\ UNCHANGED adding

\* Variant of GatheringHook: the pending remote offer is not taken out of
\* its slot before it is applied.
GatheringHook_KeepsPending(x) ==
    /\ hooks > 0
    /\ hooks' = hooks - 1
    /\ IF t.restartAfterGathering
       THEN /\ CanOffer
            /\ OfferSection(createAndSendOffer(World, TRUE, x), run)
       ELSE /\ x = AllOk
            /\ InLock(World)
            /\ run' = [run EXCEPT !.hooked =
                           IF t.pendingRestartIceOffer # NoSD
                           THEN Append(@, t.pendingRestartIceOffer) ELSE @]
    /\ UNCHANGED adding

\* lines 284-302, the critical section of the hook: the deferred local
\* restart, or the pending remote offer is taken out of its slot
GatheringHook(x) ==
    /\ hooks > 0
    /\ hooks' = hooks - 1
    /\ IF t.restartAfterGathering
       THEN /\ CanOffer
            /\ OfferSection(createAndSendOffer(World, TRUE, x), run)
       ELSE /\ x = AllOk
            /\ InLock([World EXCEPT !.t.pendingRestartIceOffer = NoSD])
            /\ run' = [run EXCEPT !.hooked =
                           IF t.pendingRestartIceOffer # NoSD
                           THEN Append(@, t.pendingRestartIceOffer) ELSE @]
    /\ UNCHANGED adding

Without(s, k) == SubSeq(s, 1, k - 1) \o SubSeq(s, k + 1, Len(s))

\* line 297: the hook, past its Unlock, calls SetRemoteDescription with the
\* offer it took
HookSetRemoteDescription ==
    \E k \in 1..Len(run.hooked) :
        SetRemoteDescriptionEnter(run.hooked[k],
                                  [run EXCEPT !.hooked = Without(@, k)])

\* The caller answers a remote offer on the peer-connection it gets from
\* PeerConnection(): CreateAnswer and SetLocalDescription(answer).
AnswerRemoteOffer ==
    /\ ~pc.closed
    /\ pc.signalingState = "have-remote-offer"
    /\ NoLock([World EXCEPT !.pc.signalingState = "stable",
                            !.pc.localDescription = TRUE,
                            !.pc.currentRemoteDescription = "offer"])
    /\ UNCHANGED <<hooks, adding, run>>

\* The 15 s of timer v have passed: its function starts and Stop no longer
\* prevents it.
TimerExpire(v) ==
    /\ timers[v] = "armed"
    /\ NoLock([World EXCEPT !.timers[v] = "expired"])
    /\ UNCHANGED <<hooks, adding, run>>

\* Variant of negotiationFailed: the failure is seen when the state is Idle.
negotiationFailed_WhenIdle(w) == w.t.negotiationState = negotiationStateNone

\* line 587, what the timer function reads under the read lock
negotiationFailed(w) == w.t.negotiationState # negotiationStateNone

\* lines 586-588: the function of timer v reads the negotiation state under
\* the read lock and releases it
TimerRead(v) ==
    /\ timers[v] = "expired"
    /\ CanRLock("t")
    /\ NoLock([World EXCEPT !.timers[v] =
                   IF negotiationFailed(World) THEN "failed" ELSE "notFailed"])
    /\ UNCHANGED <<hooks, adding, run>>

\* line 589, made without the lock: the epoch is compared with the one the
\* timer was armed for; the function returns unless they are equal and the
\* state it read was not Idle
TimerCompare(v) ==
    /\ timers[v] \in {"failed", "notFailed"}
    /\ NoLock([World EXCEPT !.timers[v] =
                   IF t.negotiateCounter = v /\ timers[v] = "failed"
                   THEN "matched" ELSE "done"])
    /\ UNCHANGED <<hooks, adding, run>>

\* line 590: the field, which OnNegotiationFailed writes without the lock,
\* is compared with nil
TimerCheck(v) ==
    /\ timers[v] = "matched"
    /\ NoLock([World EXCEPT !.timers[v] =
                   IF t.onNegotiationFailed THEN "calling" ELSE "done"])
    /\ UNCHANGED <<hooks, adding, run>>

\* line 591: the field is read again and called; w is the world past the
\* call of the function it holds
TimerFunc(w, negotiateVersion) ==
    [w EXCEPT !.timers[negotiateVersion] = "done",
              !.obs.failed[negotiateVersion] = @ + 1,
              !.r.path = "negotiationFailed"]

\* line 591: onNegotiationFailed is invoked; with the field nil by now the
\* call is one of a nil function and the runtime stops the program
TimerReport(v) ==
    /\ timers[v] = "calling"
    /\ IF t.onNegotiationFailed
       THEN /\ NoLock(TimerFunc(World, v))
            /\ UNCHANGED run
       ELSE /\ NoLock(Result(World, "fatal", "negotiationFailed", FALSE, "none"))
            /\ run' = [run EXCEPT !.aborted = TRUE]
    /\ UNCHANGED <<hooks, adding>>

\* lines 339-344, the critical section of Close
Close ==
    /\ ~pc.closed
    /\ ~run.closing
    /\ InLock(StopTimer(World))
    /\ run' = [run EXCEPT !.closing = TRUE]
    /\ UNCHANGED <<hooks, adding>>

\* line 350: the peer-connection is closed without the lock
ClosePC ==
    /\ run.closing
    /\ NoLock([World EXCEPT !.pc.closed = TRUE])
    /\ run' = [run EXCEPT !.closing = FALSE]
    /\ UNCHANGED <<hooks, adding>>

\* lines 229-233
SetICEConnectedAt(at) ==
    /\ InLock([World EXCEPT !.t.iceConnectedAt = at])
    /\ UNCHANGED <<hooks, adding, run>>

\* Variant of IsShortConnection: a connection of exactly the threshold is short.
IsShortConnection_Inclusive(iceConnectedAt, at) ==
    IF iceConnectedAt = 0 THEN <<FALSE, 0>>
    ELSE LET duration == at - iceConnectedAt
         IN  <<duration <= shortConnectionThreshold, duration>>

\* lines 235-245
IsShortConnection(iceConnectedAt, at) ==
    IF iceConnectedAt = 0 THEN <<FALSE, 0>>
    ELSE LET duration == at - iceConnectedAt
         IN  <<duration < shortConnectionThreshold, duration>>

IsShortConnectionCall(at) ==
    /\ Alive
    /\ CanRLock("t")
    /\ short' = IsShortConnection(t.iceConnectedAt, at)
    /\ UNCHANGED <<t, pc, timers, hooks, adding, run, obs, last, dvars, gvars>>

\* ------------------------------------------------------------ goroutines
\* threads[id] is a goroutine that is followed from step to step: kind is
\* what it runs ("Start", "Restart", "Notify": a call of the aggregator;
\* "qtimer": the function of the aggregator's timer; "onOffer": the goroutine
\* of a go t.onOffer statement; "timer": the function of the negotiation
\* timer; "CreateAndSendOffer", "SetRemoteDescription": a call of the
\* transport; "idle": a free slot), at its position: "locked" / "rlocked"
\* inside a critical section, "spawned" created and not yet running, "start"
\* a timer function that has started, "reset" / "stored" / "unlocked" between
\* two critical sections or past them, "callback" inside the user callback,
\* "waiting" the callback has called a public operation of the same object
\* and is at its Lock, "reentered" it is inside that operation. handed lists
\* the onOffer goroutines created and not yet running, in the order of their
\* go statements. What a goroutine carries from one step to the next is its
\* arg.
IdleThread == [kind |-> "idle", at |-> "idle", arg |-> <<>>]
IdleIDs(th) == {id \in ThreadIDs : th[id].kind = "idle"}
FreeSlot(th) == CHOOSE id \in IdleIDs(th) : TRUE

ObjectOf(kind) ==
    IF kind \in {"Start", "Restart", "Notify", "qtimer"} THEN "d" ELSE "t"

\* the slots kept for the onOffer goroutine of a go statement to come: a
\* goroutine stands at its go statement, or a SetRemoteDescription that is
\* followed has applied the answer to an offer after which a request was
\* queued
Owed(th) ==
    Cardinality({id \in ThreadIDs :
                    \/ th[id].at = "go"
                    \/ /\ th[id].kind = "SetRemoteDescription"
                       /\ th[id].at = "locked"
                       /\ th[id].arg[1] = "applied"
                       /\ th[id].arg[2].type = "answer"
                       /\ th[id].arg[3] = negotiationRetry})

\* a new goroutine in a free slot
Go(kind, at, arg) ==
    /\ Alive
    /\ Cardinality(IdleIDs(threads)) > Owed(threads)
    /\ threads' = [threads EXCEPT ![FreeSlot(threads)] =
                       [kind |-> kind, at |-> at, arg |-> arg]]

\* the goroutine releases the lock of its object and goes on at a position,
\* or returns
Leave(id, at) ==
    /\ Alive
    /\ locks' = Unlocked(ObjectOf(threads[id].kind), id)
    /\ threads' = [threads EXCEPT ![id] =
                       IF at = "idle" THEN IdleThread ELSE [@ EXCEPT !.at = at]]

\* ------------------------------------------------------- DynacastQuality
\* d holds the fields of the aggregator: the maps are functions whose domain
\* is the set of keys present; maxQualityTimer is "nil", "armed" or "fired"
\* (the pointer is kept after the timer fired, until somebody stops it).
\* Every call runs in a goroutine of its own, one step per critical section.
\* dobs records what the owner observed: latest is the value of the latest
\* callback (<<>>: none), computed the aggregate of the latest recompute
\* that notified since the latest Start / Restart was called (<<>>: no
\* recompute has notified since), grace whether the timer armed by
\* the latest Start / Restart has not fired yet, reported whether a quality
\* other than OFF was ever reported, stopped whether Stop has returned and
\* no step of a Start or a Restart was made since, same whether the latest
\* report left the maximum of the reported values as it was.
DWorld == [d |-> d, notify |-> <<>>]

ReportedValues(dd) ==
    {dd.maxSubscriberQuality[k] : k \in DOMAIN dd.maxSubscriberQuality}
       \cup {dd.maxSubscriberNodeQuality[k] :
                 k \in DOMAIN dd.maxSubscriberNodeQuality}

\* the maximum under LOW < MEDIUM < HIGH of the reported values, OFF if none
MaxReported(dd) ==
    IF ReportedValues(dd) = {} THEN VideoQuality_OFF
    ELSE CHOOSE q \in ReportedValues(dd) : \A r \in ReportedValues(dd) : r <= q

\* what a report leaves for the owner to observe
Reported(dd, quality) ==
    [dobs EXCEPT !.reported = @ \/ quality # VideoQuality_OFF,
                 !.same = MaxReported(dd) = MaxReported(d)]

Put(m, k, v) == [j \in DOMAIN m \cup {k} |-> IF j = k THEN v ELSE m[j]]
Delete(m, k) == [j \in DOMAIN m \ {k} |-> m[j]]

\* Variant of MaxOf: the loop condition without its first disjunct.
RECURSIVE MaxOf_NoFirst(_, _)
MaxOf_NoFirst(m, maxSubscribedQuality) ==
    IF DOMAIN m = {} THEN maxSubscribedQuality
    ELSE LET k == CHOOSE j \in DOMAIN m : TRUE
             q == m[k]
         IN  MaxOf_NoFirst(Delete(m, k),
                   IF q # VideoQuality_OFF /\ q > maxSubscribedQuality
                   THEN q ELSE maxSubscribedQuality)

\* lines 107-111 and 112-116: one loop over a map, from the running maximum
RECURSIVE MaxOf(_, _)
MaxOf(m, maxSubscribedQuality) ==
    IF DOMAIN m = {} THEN maxSubscribedQuality
    ELSE LET k == CHOOSE j \in DOMAIN m : TRUE
             q == m[k]
         IN  MaxOf(Delete(m, k),
                   IF \/ maxSubscribedQuality = VideoQuality_OFF
                      \/ q # VideoQuality_OFF /\ q > maxSubscribedQuality
                   THEN q ELSE maxSubscribedQuality)

\* Variant of updateQualityChange: an unchanged aggregate is never notified.
updateQualityChange_OnlyChanges(w) ==
    LET maxSubscribedQuality ==
            MaxOf(w.d.maxSubscriberNodeQuality,
                  MaxOf(w.d.maxSubscriberQuality, VideoQuality_OFF))
    IN  IF maxSubscribedQuality = w.d.maxSubscribedQuality
        THEN w
        ELSE [w EXCEPT !.d.initialized = TRUE,
                       !.d.maxSubscribedQuality = maxSubscribedQuality,
                       !.notify = IF w.d.onSubscribedMaxQualityChange
                                  THEN <<maxSubscribedQuality>> ELSE <<>>]

\* lines 105-132, the critical section of updateQualityChange: notify is the
\* aggregate that is handed to the callback after the Unlock (<<>>: the
\* function returns, or there is no callback)
updateQualityChange(w) ==
    LET maxSubscribedQuality ==
            MaxOf(w.d.maxSubscriberNodeQuality,
                  MaxOf(w.d.maxSubscriberQuality, VideoQuality_OFF))
    IN  IF maxSubscribedQuality = w.d.maxSubscribedQuality /\ w.d.initialized
        THEN w
        ELSE [w EXCEPT !.d.initialized = TRUE,
                       !.d.maxSubscribedQuality = maxSubscribedQuality,
                       !.notify = IF w.d.onSubscribedMaxQualityChange
                                  THEN <<maxSubscribedQuality>> ELSE <<>>]

\* lines 154-162
stopMaxQualityTimer(w) == [w EXCEPT !.d.maxQualityTimer = "nil"]

\* lines 139-152
startMaxQualityTimer(w) == [w EXCEPT !.d.maxQualityTimer = "armed"]

\* lines 96-99, the first critical section of reset
reset(w) ==
    [w EXCEPT !.d.initialized = FALSE,
              !.d.maxSubscribedQuality = VideoQuality_HIGH]

\* lines 56-58: the field is written without the lock; f says whether the
\* function is not nil
OnSubscribedMaxQualityChange(f) ==
    /\ Alive
    /\ d' = [d EXCEPT !.onSubscribedMaxQualityChange = f]
    /\ UNCHANGED <<tvars, dobs, gvars>>

\* the first critical section of a Start or a Restart, in a new goroutine
ResetCall(kind) ==
    /\ CanLock("d")
    /\ Go(kind, "reset", <<>>)
    /\ d' = reset(DWorld).d
    /\ dobs' = [dobs EXCEPT !.computed = <<>>, !.stopped = FALSE]
    /\ UNCHANGED <<tvars, locks, handed>>

\* lines 44-46, up to line 99
Start == ResetCall("Start")

\* lines 48-50, up to line 99
Restart == ResetCall("Restart")

\* line 101: the second critical section of a Start or a Restart
StartMaxQualityTimer(id) ==
    /\ Alive
    /\ threads[id].kind \in {"Start", "Restart"} /\ threads[id].at = "reset"
    /\ CanLock("d")
    /\ d' = startMaxQualityTimer(DWorld).d
    /\ dobs' = [dobs EXCEPT !.grace = TRUE, !.stopped = FALSE]
    /\ threads' = [threads EXCEPT ![id] = IdleThread]
    /\ UNCHANGED <<tvars, locks, handed>>

\* lines 52-54: one critical section
Stop ==
    /\ Alive
    /\ CanLock("d")
    /\ d' = stopMaxQualityTimer(DWorld).d
    /\ dobs' = [dobs EXCEPT !.stopped = TRUE]
    /\ UNCHANGED <<tvars, gvars>>

\* lines 71-78, the first critical section, in a new goroutine
NotifySubscriberMaxQuality(subscriberID, quality) ==
    /\ CanLock("d")
    /\ Go("Notify", "stored", <<>>)
    /\ d' = [d EXCEPT !.maxSubscriberQuality =
                          IF quality = VideoQuality_OFF
                          THEN Delete(@, subscriberID)
                          ELSE Put(@, subscriberID, quality)]
    /\ dobs' = Reported(d', quality)
    /\ UNCHANGED <<tvars, locks, handed>>

\* lines 83-90, the first critical section, in a new goroutine
NotifySubscriberNodeMaxQuality(nodeID, quality) ==
    /\ CanLock("d")
    /\ Go("Notify", "stored", <<>>)
    /\ d' = [d EXCEPT !.maxSubscriberNodeQuality =
                          IF quality = VideoQuality_OFF
                          THEN Delete(@, nodeID)
                          ELSE Put(@, nodeID, quality)]
    /\ dobs' = Reported(d', quality)
    /\ UNCHANGED <<tvars, locks, handed>>

\* The 10 s of the armed timer have passed: its function starts in a
\* goroutine of its own, and Stop no longer prevents it.
QualityTimerExpire ==
    /\ d.maxQualityTimer = "armed"
    /\ Cardinality({id \in ThreadIDs : threads[id].kind = "qtimer"}) < MaxFired
    /\ Go("qtimer", "start", <<>>)
    /\ d' = [d EXCEPT !.maxQualityTimer = "fired"]
    /\ dobs' = [dobs EXCEPT !.grace = FALSE]
    /\ UNCHANGED <<tvars, locks, handed>>

\* line 149: the timer function stops the timer the field holds
QualityTimerStop(id) ==
    /\ Alive
    /\ threads[id].kind = "qtimer" /\ threads[id].at = "start"
    /\ CanLock("d")
    /\ d' = stopMaxQualityTimer(DWorld).d
    /\ threads' = [threads EXCEPT ![id].at = "stored"]
    /\ UNCHANGED <<tvars, dobs, locks, handed>>

\* lines 105-131 (line 80, 92 or 150): the recompute, up to its Unlock
RecomputeLocked(id) ==
    /\ Alive
    /\ threads[id].kind \in {"Notify", "qtimer"} /\ threads[id].at = "stored"
    /\ CanLock("d")
    /\ LET w == updateQualityChange(DWorld)
       IN  /\ d' = w.d
           /\ threads' = [threads EXCEPT ![id].at = "locked",
                                         ![id].arg = w.notify]
           /\ dobs' = [dobs EXCEPT !.computed =
                           IF w.notify # <<>> THEN w.notify ELSE @]
    /\ locks' = Locked("d", id)
    /\ UNCHANGED <<tvars, handed>>

\* lines 119-120 and 132: the Unlock; the goroutine returns, or goes on to
\* notify the aggregate it has stored ("unlocked")
RecomputeUnlock(id) ==
    /\ threads[id].kind \in {"Notify", "qtimer"} /\ threads[id].at = "locked"
    /\ Leave(id, IF threads[id].arg # <<>> THEN "unlocked" ELSE "idle")
    /\ UNCHANGED <<tvars, dvars, handed>>

\* lines 134-136: onSubscribedMaxQualityChange is invoked with the aggregate
\* this goroutine computed
InvokeOnSubscribedMaxQualityChange(id) ==
    /\ Alive
    /\ threads[id].kind \in {"Notify", "qtimer"} /\ threads[id].at = "unlocked"
    /\ threads' = [threads EXCEPT ![id].at = "callback"]
    /\ dobs' = [dobs EXCEPT !.latest = threads[id].arg]
    /\ UNCHANGED <<tvars, d, locks, handed>>

\* ------------------------------------------- goroutines of the transport
\* The operations of the transport that end in a user callback, with the
\* goroutines of their callbacks. obs and last belong to the steps of the
\* callers that are not followed and are left alone here.
\* go t.onOffer(...): lines 518 and 596
GoOnOffer(th, emit) ==
    [th EXCEPT ![FreeSlot(th)] =
                  [kind |-> "onOffer", at |-> "spawned", arg |-> <<emit>>]]

HandedOver(th, emit) == Append(handed, FreeSlot(th))

\* The critical section of a transport operation run by a new goroutine, up
\* to its Unlock ("locked") or to the go statement the offer algorithm has
\* reached ("go": what it hands over is put before the arg).
Enter(kind, w, arg) ==
    /\ CanLock("t")
    /\ Cardinality(IdleIDs(threads)) >= IF w.r.emit = "none" THEN 1 ELSE 2
    /\ CommitFields(w)
    /\ locks' = Locked("t", FreeSlot(threads))
    /\ threads' = [threads EXCEPT ![FreeSlot(threads)] =
                       IF w.r.emit = "none"
                       THEN [kind |-> kind, at |-> "locked", arg |-> arg]
                       ELSE [kind |-> kind, at |-> "go",
                             arg |-> <<w.r.emit>> \o arg]]
    /\ UNCHANGED <<hooks, adding, run, obs, last, short, dvars, handed>>

\* lines 479-483, up to the deferred Unlock or to the go statement
CreateAndSendOfferLocked(optRestart) ==
    /\ CanOffer
    /\ Enter("CreateAndSendOffer", createAndSendOffer(World, optRestart, AllOk), <<>>)

\* lines 518 and 596, by a goroutine that is followed: t.onOffer is read
\* again; the goroutine of onOffer is created, or the runtime stops the
\* program
GoOnOfferLocked(id) ==
    /\ threads[id].at = "go"
    /\ Alive
    /\ IF t.onOffer
       THEN LET th == [threads EXCEPT ![id].at = "locked", ![id].arg = Tail(@)]
            IN  /\ threads' = GoOnOffer(th, threads[id].arg[1])
                /\ handed' = HandedOver(th, threads[id].arg[1])
                /\ UNCHANGED run
       ELSE /\ run' = [run EXCEPT !.aborted = TRUE]
            /\ UNCHANGED <<threads, handed>>
    /\ UNCHANGED <<t, pc, timers, hooks, adding, obs, last, short, dvars, locks>>

\* line 481, the deferred Unlock, and the return
CreateAndSendOfferUnlock(id) ==
    /\ threads[id].kind = "CreateAndSendOffer" /\ threads[id].at = "locked"
    /\ Leave(id, "idle")
    /\ UNCHANGED <<tvars, dvars, handed>>

\* lines 353-393: arg is where the operation stands (the srd of the result),
\* the description, the negotiation state it found and the index of the next
\* buffered candidate
SetRemoteDescriptionLocked(sd) ==
    LET w == setRemoteDescriptionApply(World, sd)
    IN  /\ (t.negotiationState = negotiationRetry /\ sd.type = "answer")
              => CanOffer /\ Cardinality(IdleIDs(threads)) >= 2
        /\ Enter("SetRemoteDescription", w, <<w.r.srd, sd, t.negotiationState, 1>>)

\* lines 395-400, one turn of the loop; an error unlocks and returns
SetRemoteDescriptionDrain(id, cok) ==
    /\ threads[id].kind = "SetRemoteDescription" /\ threads[id].at = "locked"
    /\ threads[id].arg[1] = "applied"
    /\ threads[id].arg[4] <= Len(t.pendingCandidates)
    /\ LET w == drainCandidate(World, t.pendingCandidates[threads[id].arg[4]], cok)
       IN  /\ CommitFields(w)
           /\ IF w.r.srd = "candidate"
              THEN Leave(id, "idle")
              ELSE /\ threads' = [threads EXCEPT ![id].arg[4] = @ + 1]
                   /\ UNCHANGED locks
    /\ UNCHANGED <<hooks, adding, run, obs, last, short, dvars, handed>>

\* lines 401-409: the end of the critical section, up to its Unlock
\* ("finished") or to the go statement of the follow-up offer
SetRemoteDescriptionFinish(id) ==
    /\ threads[id].kind = "SetRemoteDescription" /\ threads[id].at = "locked"
    /\ threads[id].arg[1] = "applied"
    /\ threads[id].arg[4] > Len(t.pendingCandidates)
    /\ LET a == threads[id].arg
           w == setRemoteDescriptionEnd(World, a[3], a[2], AllOk)
       IN  /\ CommitFields(w)
           /\ threads' = [threads EXCEPT ![id] =
                  IF w.r.emit = "none"
                  THEN [@ EXCEPT !.arg[1] = "finished"]
                  ELSE [@ EXCEPT !.at = "go",
                                 !.arg = <<w.r.emit, "finished">> \o Tail(a)]]
    /\ UNCHANGED <<hooks, adding, run, obs, last, short, dvars, locks, handed>>

\* Variant of SetRemoteDescriptionUnlock: the callback is invoked before the
\* Unlock.
SetRemoteDescriptionUnlock_Late(id) ==
    /\ threads[id].kind = "SetRemoteDescription" /\ threads[id].at = "locked"
    /\ threads[id].arg[1] # "applied"
    /\ Alive
    /\ IF threads[id].arg[1] = "finished" /\ t.onRemoteDescripitonSettled
       THEN /\ threads' = [threads EXCEPT ![id].at = "callback"]
            /\ UNCHANGED locks
       ELSE Leave(id, "idle")
    /\ UNCHANGED <<tvars, dvars, handed>>

\* The Unlock of an early return; or lines 410-415: the Unlock of line 411,
\* and onRemoteDescripitonSettled, read at line 410, is invoked if there is
\* one
SetRemoteDescriptionUnlock(id) ==
    /\ threads[id].kind = "SetRemoteDescription" /\ threads[id].at = "locked"
    /\ threads[id].arg[1] # "applied"
    /\ Alive
    /\ Leave(id, IF threads[id].arg[1] = "finished" /\ t.onRemoteDescripitonSettled
                 THEN "callback" ELSE "idle")
    /\ UNCHANGED <<tvars, dvars, handed>>

\* line 585: the 15 s of timer v have passed, its function starts in a
\* goroutine that is followed ("running")
TimerGo(v) ==
    /\ timers[v] = "armed"
    /\ Go("timer", "start", <<v>>)
    /\ CommitFields([World EXCEPT !.timers[v] = "running"])
    /\ UNCHANGED <<hooks, adding, run, obs, last, short, dvars, locks, handed>>

\* lines 586-587: the read lock is taken and the negotiation state read
TimerRLock(id) ==
    /\ threads[id].kind = "timer" /\ threads[id].at = "start"
    /\ Alive
    /\ CanRLock("t")
    /\ locks' = [locks EXCEPT !["t"].r = @ \cup {id}]
    /\ threads' = [threads EXCEPT ![id].at = "rlocked",
                                  ![id].arg = Append(@, negotiationFailed(World))]
    /\ UNCHANGED <<tvars, dvars, handed>>

\* line 588
TimerRUnlock(id) ==
    /\ threads[id].kind = "timer" /\ threads[id].at = "rlocked"
    /\ Leave(id, "unlocked")
    /\ UNCHANGED <<tvars, dvars, handed>>

\* line 589: the counter is compared; line 590: the field is compared with
\* nil. The function returns, or goes on to the next line.
TimerNext(id, from, goesOn, to) ==
    /\ threads[id].kind = "timer" /\ threads[id].at = from
    /\ CommitFields(IF goesOn THEN World
                    ELSE [World EXCEPT !.timers[threads[id].arg[1]] = "done"])
    /\ threads' = [threads EXCEPT ![id] =
                       IF goesOn THEN [@ EXCEPT !.at = to] ELSE IdleThread]
    /\ UNCHANGED <<hooks, adding, run, obs, last, short, dvars, locks, handed>>

TimerLoad(id) ==
    TimerNext(id, "unlocked",
              t.negotiateCounter = threads[id].arg[1] /\ threads[id].arg[2],
              "matched")

TimerNilCheck(id) ==
    TimerNext(id, "matched", t.onNegotiationFailed, "calling")

\* line 591: the field is read again and onNegotiationFailed invoked, or the
\* runtime stops the program
TimerInvoke(id) ==
    /\ threads[id].kind = "timer" /\ threads[id].at = "calling"
    /\ IF t.onNegotiationFailed
       THEN /\ CommitFields(TimerFunc(World, threads[id].arg[1]))
            /\ threads' = [threads EXCEPT ![id].at = "callback"]
            /\ UNCHANGED run
       ELSE /\ CommitFields(World)
            /\ run' = [run EXCEPT !.aborted = TRUE]
            /\ UNCHANGED threads
    /\ UNCHANGED <<hooks, adding, obs, last, short, dvars, locks, handed>>

\* the goroutine of a go t.onOffer statement starts to run
OnOfferBegin(id) ==
    /\ Alive
    /\ threads[id].kind = "onOffer" /\ threads[id].at = "spawned"
    /\ threads' = [threads EXCEPT ![id].at = "callback"]
    /\ handed' = SelectSeq(handed, LAMBDA h : h # id)
    /\ UNCHANGED <<tvars, dvars, locks>>

\* The user callback calls a public operation of the object that invoked it:
\* AddNegotiationPending (lines 450-454) of the transport, Stop (lines 52-54,
\* 154-162) of the aggregator. Both start with Lock.
CallbackReenter(id) ==
    /\ Alive
    /\ threads[id].at = "callback"
    /\ threads' = [threads EXCEPT ![id].at = "waiting"]
    /\ UNCHANGED <<tvars, dvars, locks, handed>>

ReenterLock(id) ==
    /\ Alive
    /\ threads[id].at = "waiting"
    /\ CanLock(ObjectOf(threads[id].kind))
    /\ locks' = Locked(ObjectOf(threads[id].kind), id)
    /\ threads' = [threads EXCEPT ![id].at = "reentered"]
    /\ IF ObjectOf(threads[id].kind) = "t"
       THEN /\ CommitFields([World EXCEPT !.t.negotiationPending = @ \cup {"pubA"}])
            /\ UNCHANGED <<hooks, adding, run, obs, last, short, dvars, handed>>
       ELSE /\ d' = stopMaxQualityTimer(DWorld).d
            /\ dobs' = [dobs EXCEPT !.stopped = TRUE]
            /\ UNCHANGED <<tvars, handed>>

\* the Unlock of that operation; the callback then returns
ReenterUnlock(id) ==
    /\ threads[id].at = "reentered"
    /\ Leave(id, "idle")
    /\ UNCHANGED <<tvars, dvars, handed>>

\* the user callback returns without calling the object
CallbackReturn(id) ==
    /\ Alive
    /\ threads[id].at = "callback"
    /\ threads' = [threads EXCEPT ![id] = IdleThread]
    /\ UNCHANGED <<tvars, dvars, locks, handed>>

\* a goroutine that holds a lock goes on: the next step of its critical
\* section (its go statement, a turn of the candidate loop, the end of the
\* section), or its Unlock
Release(id) ==
    \/ GoOnOfferLocked(id)
    \/ CreateAndSendOfferUnlock(id)
    \/ \E cok \in BOOLEAN : SetRemoteDescriptionDrain(id, cok)
    \/ SetRemoteDescriptionFinish(id)
    \/ SetRemoteDescriptionUnlock(id)
    \/ TimerRUnlock(id)
    \/ RecomputeUnlock(id)
    \/ ReenterUnlock(id)

\* ---------------------------------------------------------- specifications
\* The connection clock: the instants are those of a run that starts after
\* the zero time.
NextConnection ==
    \/ \E at \in 1..MaxInstant : SetICEConnectedAt(at)
    \/ \E at \in 1..MaxInstant : IsShortConnectionCall(at)

SpecConnection == Init /\ [][NextConnection]_vars

\* the steps of the goroutines of the aggregator
NextRecompute ==
    \/ \E id \in ThreadIDs : RecomputeLocked(id)
    \/ \E id \in ThreadIDs : RecomputeUnlock(id)
    \/ \E id \in ThreadIDs : InvokeOnSubscribedMaxQualityChange(id)
    \/ \E id \in ThreadIDs : CallbackReturn(id)

\* the goroutines of the calls of the aggregator; the function of its timer
\* runs in a goroutine the runtime starts, whatever the callers do
CallKinds == {"Start", "Restart", "Notify"}

\* no call of the aggregator is under way
Quiet == \A id \in ThreadIDs : threads[id].kind \notin CallKinds

\* at most one goroutine that is followed is inside a call or a timer function
AtMostOneBusy ==
    \E id \in ThreadIDs :
       \A other \in ThreadIDs \ {id} : threads[other].kind = "idle"

\* a call of the aggregator starts
QualityCalls ==
    \/ Start
    \/ Restart
    \/ Stop
    \/ \E id \in SubscriberIDs, q \in VideoQualities :
          NotifySubscriberMaxQuality(id, q)
    \/ \E id \in NodeIDs, q \in VideoQualities :
          NotifySubscriberNodeMaxQuality(id, q)

\* a call of the aggregator, or the function of its timer, starts
QualityStarts ==
    \/ QualityCalls
    \/ QualityTimerExpire

\* a call that has started, or the function of the timer, goes on
QualityGoesOn ==
    \/ \E id \in ThreadIDs : StartMaxQualityTimer(id)
    \/ \E id \in ThreadIDs : QualityTimerStop(id)
    \/ NextRecompute

\* The aggregator with every operation, each call in a goroutine of its own.
NextQuality == QualityStarts \/ QualityGoesOn

\* The aggregator with every operation: a call that runs in a goroutine of
\* its own starts while at most one other goroutine (a call, or the function
\* of the timer) is under way; Stop, which is one critical section, is
\* called at any time, and the timer fires when its time has passed,
\* whatever the callers do.
NextPair ==
    \/ AtMostOneBusy /\ QualityCalls
    \/ Stop
    \/ QualityTimerExpire
    \/ QualityGoesOn

SpecQuality == InitRegistered /\ [][NextPair]_vars

\* The aggregator with one caller that makes its calls one after another: a
\* call starts when the one before it has returned. The timer fires when its
\* time has passed, and its function runs beside the calls.
NextSequential ==
    \/ Quiet /\ QualityCalls
    \/ QualityTimerExpire
    \/ QualityGoesOn

SpecSequential == InitRegistered /\ [][NextSequential]_vars

\* The reports of subscribers and nodes made concurrently.
NextNotify ==
    \/ \E id \in SubscriberIDs, q \in VideoQualities :
          NotifySubscriberMaxQuality(id, q)
    \/ \E id \in NodeIDs, q \in VideoQualities :
          NotifySubscriberNodeMaxQuality(id, q)
    \/ NextRecompute

SpecNotify == InitRegistered /\ [][NextNotify]_vars

\* the steps of a SetRemoteDescription past its first one, with no candidate
\* to drain
NextSettle ==
    \/ \E x \in StackOutcomes : SetRemoteDescriptionEnd(x)
    \/ GoOnOfferStatement
    \/ \E e \in CallbackOutcomes : InvokeOnRemoteDescripitonSettled(e)

\* the steps of the negotiation requests past their first one
NextRequest ==
    \/ \E x \in StackOutcomes : NegotiateCreateAndSendOffer(x)
    \/ DebounceFire
    \/ \E x \in StackOutcomes : DebouncedCreateAndSendOffer(x)

\* the gathering states the peer-connection reports, and the critical
\* section of the hook
NextGathering ==
    \/ \E s \in {"gathering", "complete"} : OnICEGatheringStateChange(s)
    \/ \E x \in StackOutcomes : GatheringHook(x)

\* the failure timers
NextTimers ==
    \/ \E v \in 1..MaxOffers : TimerExpire(v)
    \/ \E v \in 1..MaxOffers : TimerRead(v)
    \/ \E v \in 1..MaxOffers : TimerCompare(v)
    \/ \E v \in 1..MaxOffers : TimerCheck(v)
    \/ \E v \in 1..MaxOffers : TimerReport(v)

\* the registration of the transport's callbacks
NextRegister ==
    \/ \E f \in BOOLEAN : OnOffer(f)
    \/ \E f \in BOOLEAN : OnNegotiationFailed(f)
    \/ \E f \in BOOLEAN : OnRemoteDescripitonSettled(f)

\* Locally-initiated negotiation driven by Negotiate and SetRemoteDescription.
NextNegotiate ==
    \/ \E x \in StackOutcomes : CreateAndSendOffer(FALSE, x)
    \/ \E f \in BOOLEAN : Negotiate(f)
    \/ NextRequest
    \/ \E sd \in RemoteSDs : SetRemoteDescriptionCall(sd)
    \/ NextSettle
    \/ NextGathering
    \/ HookSetRemoteDescription
    \/ AnswerRemoteOffer

SpecNegotiate == InitRegistered /\ [][NextNegotiate]_vars

\* ICE restarts: requests with and without the option, the migration answer,
\* gathering and its hook, answers and remote offers.
NextRestart ==
    \/ \E o \in BOOLEAN, x \in StackOutcomes : CreateAndSendOffer(o, x)
    \/ \E sd \in SteadySDs : SetRemoteDescriptionCall(sd)
    \/ NextSettle
    \/ \E k \in SetPreviousAnswerKinds : SetPreviousAnswer(k)
    \/ NextGathering
    \/ AnswerRemoteOffer

\* The failure timers against offers, answers and Close.
NextFailure ==
    \/ \E o \in BOOLEAN, x \in StackOutcomes : CreateAndSendOffer(o, x)
    \/ \E sd \in SteadySDs : SetRemoteDescriptionCall(sd)
    \/ NextSettle
    \/ NextTimers
    \/ Close
    \/ ClosePC

SpecFailure == InitRegistered /\ [][NextFailure]_vars

\* Go's runtime runs the function of a timer that was not stopped in time,
\* and a goroutine that stands at its go statement inside a critical
\* section goes on. A goroutine that waits at RLock is let in when the
\* writer that holds the lock unlocks, before any later writer
\* (sync.RWMutex), so the read of the timer's function is made even if the
\* lock is taken again and again.
SpecFailureFair ==
    /\ SpecFailure
    /\ WF_vars(GoOnOfferStatement)
    /\ \A v \in 1..MaxOffers :
          /\ WF_vars(TimerExpire(v)) /\ SF_vars(TimerRead(v))
          /\ WF_vars(TimerCompare(v)) /\ WF_vars(TimerCheck(v))
          /\ WF_vars(TimerReport(v))

\* The offer algorithm with every way into it but the debouncer: ICE-restart
\* requests, the migration answer, gathering, the failure timers and Close.
NextOffer ==
    \/ NextRestart
    \/ NextTimers
    \/ Close
    \/ ClosePC

SpecOffer == InitRegistered /\ [][NextOffer]_vars

\* Remote candidates against remote descriptions.
NextCandidates ==
    \/ \E cok \in BOOLEAN : AddICECandidate(cok)
    \/ AddICECandidateAppend
    \/ \E sd \in SteadySDs : SetRemoteDescriptionCall(sd)
    \/ \E cok \in BOOLEAN : DrainCandidate(cok)
    \/ NextSettle
    \/ \E x \in StackOutcomes : CreateAndSendOffer(FALSE, x)
    \/ AnswerRemoteOffer

SpecCandidates == InitRegistered /\ [][NextCandidates]_vars

\* Remote descriptions of every kind (accepted or not, with and without a
\* usable ICE credential, during gathering or not) against remote candidates.
NextRemote ==
    \/ \E cok \in BOOLEAN : AddICECandidate(cok)
    \/ AddICECandidateAppend
    \/ \E sd \in RemoteSDs : SetRemoteDescriptionCall(sd)
    \/ \E cok \in BOOLEAN : DrainCandidate(cok)
    \/ NextSettle
    \/ \E x \in StackOutcomes : CreateAndSendOffer(FALSE, x)
    \/ NextGathering
    \/ HookSetRemoteDescription
    \/ AnswerRemoteOffer

SpecRemote == InitRegistered /\ [][NextRemote]_vars

\* The negotiation-pending set against every outcome of the offer algorithm,
\* on a transport whose callbacks are registered, replaced and removed at
\* any time.
NextPending ==
    \/ NextRegister
    \/ \E id \in PublisherIDs : AddNegotiationPending(id)
    \/ \E o \in BOOLEAN, x \in StackOutcomes : CreateAndSendOffer(o, x)
    \/ \E sd \in SteadySDs : SetRemoteDescriptionCall(sd)
    \/ NextSettle
    \/ NextGathering

SpecPending == Init /\ [][NextPending]_vars

\* the candidates delivered while the goroutines are followed
MaxBuffered == 1

\* the goroutines of the transport that are followed, and the candidates
\* that are buffered for the loop of SetRemoteDescription
NextThreads ==
    \/ \E o \in BOOLEAN : CreateAndSendOfferLocked(o)
    \/ \E sd \in {a \in AnswerSDs : a.ok} : SetRemoteDescriptionLocked(sd)
    \/ \E id \in ThreadIDs : GoOnOfferLocked(id)
    \/ \E id \in ThreadIDs : CreateAndSendOfferUnlock(id)
    \/ obs.delivered < MaxBuffered /\ AddICECandidate(TRUE)
    \/ AddICECandidateAppend
    \/ \E id \in ThreadIDs, cok \in BOOLEAN : SetRemoteDescriptionDrain(id, cok)
    \/ \E id \in ThreadIDs : SetRemoteDescriptionFinish(id)
    \/ \E id \in ThreadIDs : SetRemoteDescriptionUnlock(id)
    \/ \E v \in 1..MaxOffers : TimerGo(v)
    \/ \E id \in ThreadIDs : TimerRLock(id)
    \/ \E id \in ThreadIDs : TimerRUnlock(id)
    \/ \E id \in ThreadIDs : TimerLoad(id)
    \/ \E id \in ThreadIDs : TimerNilCheck(id)
    \/ \E id \in ThreadIDs : TimerInvoke(id)
    \/ \E id \in ThreadIDs : OnOfferBegin(id)
    \/ NotifySubscriberMaxQuality("subA", VideoQuality_HIGH)
    \/ NextRecompute
    \/ \E id \in ThreadIDs : CallbackReenter(id)
    \/ \E id \in ThreadIDs : ReenterLock(id)
    \/ \E id \in ThreadIDs : ReenterUnlock(id)

SpecThreads == InitRegistered /\ [][NextThreads]_vars

\* The offer algorithm as a function of the fields it reads. The fields are
\* drawn independently of one another: createAndSendOffer assumes nothing on
\* how the peer-connection came to its state (line 512: "it should not
\* happen, log just in case"), and with the stack modelled above a transport
\* that negotiates always has a local description.
InitAlgorithm ==
    /\ \E st \in {negotiationStateNone, negotiationStateClient, negotiationRetry},
          n \in 0..1, rg \in BOOLEAN, rn \in BOOLEAN, armed \in BOOLEAN,
          np \in {{}, {"pubA"}}, f \in BOOLEAN :
          /\ t = [NewPCTransport EXCEPT
                    !.onOffer = f,
                    !.negotiationState = st,
                    !.negotiateCounter = n,
                    !.restartAfterGathering = rg,
                    !.restartAtNextOffer = rn,
                    !.negotiationPending = np,
                    !.signalStateCheckTimer = IF armed /\ n > 0 THEN n ELSE 0]
          /\ timers = [v \in 1..MaxOffers |->
                         IF armed /\ v = n THEN "armed" ELSE "idle"]
    /\ \E ss \in {"stable", "have-local-offer", "have-remote-offer"},
          ld \in BOOLEAN, crd \in {"none", "answer", "offer"},
          gs \in {"new", "gathering", "complete"}, cl \in BOOLEAN :
          pc = [NewPeerConnection EXCEPT
                  !.signalingState = ss,
                  !.localDescription = ld,
                  !.remoteDescription = crd # "none",
                  !.currentRemoteDescription = crd,
                  !.iceGatheringState = gs,
                  !.closed = cl]
    /\ d = NewDynacastQuality
    /\ hooks = 0
    /\ adding = 0
    /\ run = NoRun
    /\ obs = NoneObserved
    /\ last = NoResult
    /\ short = <<FALSE, 0>>
    /\ dobs = NoObserved
    /\ GInit

NextAlgorithm ==
    \/ \E o \in BOOLEAN, x \in StackOutcomes : CreateAndSendOffer(o, x)
    \/ GoOnOfferStatement

SpecOfferAlgorithm == InitAlgorithm /\ [][NextAlgorithm]_vars

Next ==
    \/ NextRegister
    \/ \E o \in BOOLEAN, x \in StackOutcomes : CreateAndSendOffer(o, x)
    \/ \E f \in BOOLEAN : Negotiate(f)
    \/ NextRequest
    \/ \E sd \in RemoteSDs : SetRemoteDescriptionCall(sd)
    \/ \E cok \in BOOLEAN : DrainCandidate(cok)
    \/ NextSettle
    \/ \E cok \in BOOLEAN : AddICECandidate(cok)
    \/ AddICECandidateAppend
    \/ \E id \in PublisherIDs : AddNegotiationPending(id)
    \/ \E k \in SetPreviousAnswerKinds : SetPreviousAnswer(k)
    \/ NextGathering
    \/ HookSetRemoteDescription
    \/ AnswerRemoteOffer
    \/ NextTimers
    \/ Close
    \/ ClosePC
    \/ NextConnection
    \/ \E f \in BOOLEAN : OnSubscribedMaxQualityChange(f)
    \/ NextQuality
    \/ NextThreads
    \/ \E id \in ThreadIDs, cok \in BOOLEAN : SetRemoteDescriptionDrain(id, cok)

Spec == Init /\ [][Next]_vars

\* ------------------------------------------------------------------ claims
Idle == t.negotiationState = negotiationStateNone
AwaitingAnswer == t.negotiationState = negotiationStateClient
RetryQueued == t.negotiationState = negotiationRetry

Produced == obs'.created = obs.created + 1
NoneProduced == obs'.created = obs.created

\* the step in which a locally-initiated request that does not ask for an
\* ICE restart runs the offer algorithm
NonRestartRequest(x) ==
    \/ CreateAndSendOffer(FALSE, x)
    \/ NegotiateCreateAndSendOffer(x)
    \/ DebouncedCreateAndSendOffer(x)

\* the step of a SetRemoteDescription in which the stack accepts an answer
AnswerApplied ==
    \E sd \in AnswerSDs :
       /\ SetRemoteDescriptionCall(sd)
       /\ last'.srd = "applied"

\* the SetRemoteDescription that is inside its critical section has applied
\* the answer to an offer after which a request was queued
FollowUpDue ==
    /\ run.srd # NoCall
    /\ run.srd.lastState = negotiationRetry
    /\ run.srd.sd.type = "answer"

\* C1: under Negotiate / CreateAndSendOffer(nil) / SetRemoteDescription calls
\* there is never more than one local offer that was produced and whose answer
\* has not been applied, and while the state is AwaitingAnswer there is
\* exactly one.
C1_AtMostOneOutstandingOffer ==
    /\ obs.outstanding <= 1
    /\ AwaitingAnswer => obs.outstanding = 1

\* a second negotiation round is waiting for its answer
C1_Witness ==
    /\ AwaitingAnswer
    /\ obs.created = 2
    /\ obs.outstanding = 1

\* C3: a non-restart request made while an answer is awaited emits nothing and
\* leaves the state RetryQueued, however many of them arrive; the state
\* RetryQueued is left only by the SetRemoteDescription that applies the
\* answer, and that call makes one follow-up attempt before its Unlock: with
\* CreateOffer and SetLocalDescription succeeding it produces exactly one
\* offer and the state is AwaitingAnswer again.
C3_QueuedRetry ==
    [][/\ \A x \in StackOutcomes :
            (AwaitingAnswer \/ RetryQueued) /\ NonRestartRequest(x)
               => RetryQueued' /\ NoneProduced /\ last'.emit = "none"
       /\ RetryQueued /\ ~RetryQueued'
            => AnswerApplied /\ Idle' /\ FollowUpDue'
       /\ FollowUpDue
            => /\ Idle /\ NoneProduced
                  /\ (FollowUpDue' \/ \E x \in StackOutcomes : SetRemoteDescriptionEnd(x))
               \/ /\ \E x \in StackOutcomes : SetRemoteDescriptionEnd(x)
                  /\ last'.path \in {"created", "createFailed", "setLocalFailed"}
                  /\ last'.path = "created" <=> Produced
       /\ FollowUpDue /\ SetRemoteDescriptionEnd(AllOk)
            => Produced /\ AwaitingAnswer' /\ last'.emit = "offer"
      ]_vars

\* the follow-up offer of a queued request has just been produced
C3_Witness ==
    /\ last.srd = "finished"
    /\ last.path = "created"
    /\ AwaitingAnswer
    /\ obs.created = 2
    /\ obs.answered = 1

\* the offer algorithm run from Idle by a non-restart request produces one
\* offer unless CreateOffer or SetLocalDescription returns an error
OneOfferUnlessStackFails(x) ==
    IF x \in {"createFails", "setLocalFails"} \/ ~pcCanSetLocalOffer(pc)
    THEN NoneProduced
    ELSE Produced /\ AwaitingAnswer' /\ last'.emit = "offer"

\* C4: Negotiate(false) produces no offer in its own step and leaves one
\* debounced request pending, however often it is called; when the window
\* closes the pending request is started once and runs the offer algorithm
\* once, which from Idle produces exactly one offer (none if CreateOffer or
\* SetLocalDescription fails). Negotiate(true) replaces the pending request by
\* a no-op and then runs the offer algorithm, with the same outcome; the no-op
\* starts and produces nothing when its window closes.
C4_Debounce ==
    [][/\ Negotiate(FALSE)
            => /\ t' = [t EXCEPT !.debouncedNegotiate = "offer"]
               /\ run' = run
               /\ NoneProduced /\ last'.emit = "none"
       /\ t.debouncedNegotiate = "offer" /\ DebounceFire
            => /\ t' = [t EXCEPT !.debouncedNegotiate = "none"]
               /\ run'.debounced = run.debounced + 1
               /\ NoneProduced /\ last'.emit = "none"
       /\ \A x \in StackOutcomes :
            DebouncedCreateAndSendOffer(x)
               => /\ run'.debounced = run.debounced - 1
                  /\ Idle => OneOfferUnlessStackFails(x)
       /\ Negotiate(TRUE)
            => /\ t' = [t EXCEPT !.debouncedNegotiate = "noop"]
               /\ run'.forced = run.forced + 1
               /\ NoneProduced /\ last'.emit = "none"
       /\ \A x \in StackOutcomes :
            NegotiateCreateAndSendOffer(x)
               => /\ run'.forced = run.forced - 1
                  /\ Idle => OneOfferUnlessStackFails(x)
       /\ t.debouncedNegotiate = "noop" /\ DebounceFire
            => /\ t' = [t EXCEPT !.debouncedNegotiate = "none"]
               /\ run' = run
               /\ NoneProduced /\ last'.emit = "none"
      ]_vars

\* Negotiate(true) has produced the first offer and left the no-op pending
C4_Witness ==
    /\ t.debouncedNegotiate = "noop"
    /\ last.path = "created"
    /\ AwaitingAnswer
    /\ obs.created = 1
    /\ run.forced = 0

\* the function of the failure timer of the current epoch has started
TimerFired(v) ==
    timers[v] \in {"expired", "failed", "notFailed", "matched", "calling", "done"}

\* C2 as stated: while the state is AwaitingAnswer or RetryQueued no step
\* produces a second local offer unless the failure timer of the awaited
\* offer has fired (the follow-up offer of an applied answer is produced in
\* state Idle).
C2_NoSecondOfferWhileAwaiting ==
    [][(AwaitingAnswer \/ RetryQueued) /\ Produced
          => TimerFired(t.negotiateCounter)
      ]_vars

\* C2: while the state is AwaitingAnswer or RetryQueued a second local offer
\* is produced only after the failure timer of the awaited offer has fired,
\* or by a request that asks for an ICE restart while a current remote
\* description exists and ICE gathering is not in progress (the recovery of
\* lines 521-528: the current remote description is applied again and a new
\* offer is created with ICERestart).
C2_SecondOfferOnlyByRestart ==
    [][(AwaitingAnswer \/ RetryQueued) /\ Produced
          => \/ TimerFired(t.negotiateCounter)
             \/ /\ last'.restart
                /\ t.restartAtNextOffer \/ (\E x \in StackOutcomes :
                                               \/ CreateAndSendOffer(TRUE, x)
                                               \/ GatheringHook(x))
                /\ pc.currentRemoteDescription # "none"
                /\ pc.iceGatheringState # "gathering"
      ]_vars

\* an ICE-restart offer was produced while the previous offer had no answer
C2_Witness ==
    /\ last.path = "created"
    /\ last.restart
    /\ obs.outstanding = 2
    /\ timers[1] = "idle"

\* C5 as stated, its last part: once a SetRemoteDescription has succeeded
\* the queue of pending candidates is empty and stays empty.
C5_QueueEmptyOnceSettled ==
    obs.settled => t.pendingCandidates = <<>>

\* C6 as stated: the function of the failure timer armed for epoch v calls
\* onNegotiationFailed only in a step in which negotiateCounter is still v and
\* the state is not Idle; so not after the answer to offer v was applied, and
\* not after a newer offer was produced.
C6_TimerGuardedByEpoch ==
    [][\A v \in 1..MaxOffers :
          obs'.failed[v] # obs.failed[v]
             => /\ TimerReport(v)
                /\ t.negotiateCounter = v
                /\ ~Idle
                /\ obs.answered < v
      ]_vars

\* C7: for a transport on which Close is not called, an offer that is neither
\* followed within its 15 s by an applied remote description (the state would
\* be Idle) nor by a newer offer has onNegotiationFailed called for it; the
\* call is made at most once per offer, and the step that makes it leaves the
\* fields of the transport, the negotiation state among them, as they were.
C7_FailureReportedOnce ==
    /\ \A v \in 1..MaxOffers :
          (timers[v] = "armed")
             ~> \/ obs.failed[v] = 1
                \/ Idle
                \/ t.negotiateCounter # v
                \/ run.closing \/ pc.closed
    /\ [](\A v \in 1..MaxOffers : obs.failed[v] <= 1)
    /\ [][\A v \in 1..MaxOffers :
             obs'.failed[v] # obs.failed[v] => t' = t /\ pc' = pc
         ]_vars

\* the failure of the first offer was reported and the answer is still awaited
C7_Witness ==
    /\ obs.failed[1] = 1
    /\ timers[1] = "done"
    /\ t.negotiateCounter = 1
    /\ AwaitingAnswer

\* C8: a step that produces a local offer increases negotiateCounter by
\* exactly one, leaves the state AwaitingAnswer and the failure timer armed
\* for the new value and no other; every other step leaves negotiateCounter
\* unchanged.
C8_CounterCountsOffers ==
    [][IF last'.emit = "offer" /\ last'.path = "created"
       THEN /\ t'.negotiateCounter = t.negotiateCounter + 1
            /\ Produced
            /\ AwaitingAnswer'
            /\ t'.signalStateCheckTimer = t'.negotiateCounter
            /\ \A v \in 1..MaxOffers :
                  timers'[v] = "armed" <=> v = t'.negotiateCounter
       ELSE /\ t'.negotiateCounter = t.negotiateCounter
            /\ NoneProduced
      ]_vars

\* the second offer was produced while the timer of the first had expired
C8_Witness ==
    /\ t.negotiateCounter = 2
    /\ obs.created = 2
    /\ timers = <<"expired", "armed">>
    /\ AwaitingAnswer

\* C27: while Close has not been called, a negotiation that is under way
\* (state Client or Retry) has the failure timer of the current epoch armed or
\* already fired, and if its function has run the failure of that epoch was
\* reported; and an Idle transport has no failure timer armed.
C27_TimerCoversNegotiation ==
    ~pc.closed /\ ~run.closing
       => /\ ~Idle => /\ t.negotiateCounter > 0
                      /\ timers[t.negotiateCounter] = "armed"
                            \/ TimerFired(t.negotiateCounter)
                      /\ timers[t.negotiateCounter] = "done" /\ t.onNegotiationFailed
                           => obs.failed[t.negotiateCounter] > 0
          /\ Idle => \A v \in DOMAIN timers : timers[v] # "armed"

\* a second offer is awaiting its answer: its timer is armed and the timer of
\* the first epoch was stopped by the first answer
C27_Witness ==
    /\ ~pc.closed /\ ~run.closing
    /\ AwaitingAnswer
    /\ t.negotiateCounter = 2
    /\ timers[2] = "armed"
    /\ timers[1] = "idle"
    /\ obs.answered = 1

\* the step is the critical section of a gathering-complete hook
HookStep == hooks' = hooks - 1

\* the step is the SetRemoteDescription a hook calls with the offer o it took
HandsOver(o) ==
    \E k \in 1..Len(run.hooked) :
       /\ run.hooked[k] = o
       /\ run'.hooked = Without(run.hooked, k)

\* the ICE credential a remote offer carries
CredentialOf(sd) ==
    LET c == extractICECredential(sd) IN <<c.user, c.pwd>>

IsNegotiationPending(publisherID) == publisherID \in t.negotiationPending

\* C10: a publisher added with AddNegotiationPending is reported by
\* IsNegotiationPending from then on through every step that produces no
\* local offer (deferred, gated, skipped and failed attempts, and
\* SetRemoteDescription without a follow-up offer); the step that produces a
\* local offer clears the whole set.
C10_PendingUntilOffer ==
    [][/\ IF Produced
          THEN t'.negotiationPending = {}
          ELSE \A id \in PublisherIDs :
                 IsNegotiationPending(id) => IsNegotiationPending(id)'
       /\ \A id \in PublisherIDs :
            AddNegotiationPending(id) => IsNegotiationPending(id)'
      ]_vars

\* both publishers were added after the first offer and a gated request
\* left them pending
C10_Witness ==
    /\ t.negotiationPending = PublisherIDs
    /\ last.path = "queued"
    /\ obs.created = 1

\* C16 as stated: the first offer produced after SetPreviousAnswer installed
\* a migration answer is created with ICERestart = true.
C16_NextOfferRestartsICE ==
    [][obs.primed /\ Produced => last'.restart]_vars

ResendLocalCase ==
    /\ ~Idle
    /\ pc.iceGatheringState # "gathering"
    /\ pc.currentRemoteDescription = "none"
    /\ pc.localDescription
    /\ ~pc.closed

\* C19: in that case the request emits the current local description again,
\* creates no offer, leaves the epoch, the failure timers and the
\* peer-connection as they were, and changes only the state, to RetryQueued,
\* and restartAtNextOffer, to true; this is the only way the local description
\* is emitted again. When the answer is then applied, the follow-up attempt
\* made before the Unlock, with gathering not in progress, the
\* peer-connection not closed and the stack calls succeeding, produces an
\* offer, and whenever it produces an offer it is created with ICERestart =
\* true and restartAtNextOffer is cleared.
C19_ResendLocalThenRestart ==
    [][/\ \A x \in StackOutcomes :
            ResendLocalCase /\ CreateAndSendOffer(TRUE, x)
               => last'.path = "resendLocal"
       /\ last'.path = "resendLocal"
            => /\ ResendLocalCase
               /\ last'.emit = "local" /\ last'.err = "nil"
               /\ NoneProduced
               /\ t' = [t EXCEPT !.negotiationState = negotiationRetry,
                                 !.restartAtNextOffer = TRUE]
               /\ timers' = timers /\ pc' = pc
       /\ last'.emit = "local"
            => \/ last'.path = "resendLocal"
               \/ last'.path = "go" /\ run.going.emit = "local"
       /\ run'.going.emit = "local" /\ run.going.emit # "local"
            => last'.path = "resendLocal"
       /\ RetryQueued /\ t.restartAtNextOffer /\ AnswerApplied
            => FollowUpDue' /\ t'.restartAtNextOffer
       /\ \A x \in StackOutcomes :
            FollowUpDue /\ t.restartAtNextOffer /\ SetRemoteDescriptionEnd(x)
               => /\ Produced => last'.restart /\ ~t'.restartAtNextOffer
                  /\ (/\ x = AllOk
                      /\ pc.iceGatheringState # "gathering"
                      /\ ~pc.closed) => Produced
      ]_vars

\* the answer was applied after the local description had been emitted again:
\* the follow-up offer restarts ICE and restartAtNextOffer is cleared
C19_Witness ==
    /\ last.srd = "finished"
    /\ last.path = "created"
    /\ last.restart
    /\ ~t.restartAtNextOffer
    /\ ~obs.primed
    /\ obs.created = 2
    /\ obs.answered = 1
    /\ pc.iceGatheringState # "gathering"

\* C20: with onOffer registered and the peer-connection not closed, the
\* offer algorithm returns ErrIceRestartWithoutLocalSDP exactly when an ICE
\* restart is requested (the ICERestart option or restartAtNextOffer), ICE
\* gathering is not in progress, the state is not Idle and the
\* peer-connection has neither a current remote description nor a local
\* description; the call then changes no field of the transport (state,
\* epoch, timer, restartAtNextOffer, pending set), nor the peer-connection,
\* and hands nothing to onOffer.
C20_RestartWithoutLocalSDP ==
    [][/\ \A o \in BOOLEAN, x \in StackOutcomes :
            t.onOffer /\ ~pc.closed /\ CreateAndSendOffer(o, x)
               => (last'.err = "ErrIceRestartWithoutLocalSDP"
                     <=> /\ o \/ t.restartAtNextOffer
                         /\ pc.iceGatheringState # "gathering"
                         /\ ~Idle
                         /\ pc.currentRemoteDescription = "none"
                         /\ ~pc.localDescription)
       /\ last'.err = "ErrIceRestartWithoutLocalSDP"
            => /\ t' = t /\ pc' = pc /\ timers' = timers /\ obs' = obs
               /\ last'.emit = "none" /\ last'.path = "noLocalSDP"
               /\ t.onOffer /\ ~pc.closed
      ]_vars

\* the error was returned to a restart request made while the answer was
\* awaited
C20_Witness ==
    /\ last.err = "ErrIceRestartWithoutLocalSDP"
    /\ AwaitingAnswer
    /\ ~pc.localDescription
    /\ t.negotiationPending = {"pubA"}

\* C17: IsShortConnection(now) returns (false, 0) while iceConnectedAt was
\* never set; once it is set, with d = now - iceConnectedAt, it returns
\* (true, d) for 0 <= d < 2 min and (false, d) for d >= 2 min (instants and
\* durations in minutes).
C17_ShortConnection ==
    [][\A now \in 1..MaxInstant :
          IsShortConnectionCall(now)
             => LET dur == now - t.iceConnectedAt
                IN  /\ t.iceConnectedAt = 0 => short' = <<FALSE, 0>>
                    /\ t.iceConnectedAt # 0 /\ 0 <= dur /\ dur < 2
                          => short' = <<TRUE, dur>>
                    /\ t.iceConnectedAt # 0 /\ dur >= 2
                          => short' = <<FALSE, dur>>
      ]_vars

\* a connection of exactly two minutes was reported as not short
C17_Witness ==
    /\ t.iceConnectedAt = 3
    /\ short = <<FALSE, 2>>

\* ----------------------------------------------------- locks and callbacks
\* C11: a goroutine that is inside a user callback (onOffer,
\* onNegotiationFailed, onRemoteDescripitonSettled,
\* onSubscribedMaxQualityChange), or that waits at the Lock of a public
\* operation its callback has called, holds neither the lock of the transport
\* nor that of the aggregator; and whoever holds the lock such a goroutine
\* waits for is able to go on (to its go statement, through the candidate
\* loop, to its Unlock), so the wait ends.
C11_CallbacksOutsideLocks ==
    \A id \in ThreadIDs :
       /\ threads[id].at \in {"callback", "waiting"}
            => \A l \in {"t", "d"} : ~Holds(id, l)
       /\ threads[id].at = "waiting"
            => \A h \in ThreadIDs :
                  Holds(h, ObjectOf(threads[id].kind)) => ENABLED Release(h)

\* an onOffer callback has called the transport and waits at its Lock while
\* SetRemoteDescription is inside its critical section, at the head of the
\* candidate loop with a buffered candidate to hand to the peer-connection
C11_Witness ==
    \E id, h \in ThreadIDs :
       /\ threads[id].kind = "onOffer" /\ threads[id].at = "waiting"
       /\ threads[h].kind = "SetRemoteDescription" /\ Holds(h, "t")
       /\ threads[h].at = "locked" /\ threads[h].arg[1] = "applied"
       /\ threads[h].arg[4] <= Len(t.pendingCandidates)

\* C12: the onOffer goroutines start to run in the order of their go
\* statements: the one that begins is the oldest of those created and not yet
\* running.
C12_OffersDeliveredInOrder ==
    [][\A id \in ThreadIDs : OnOfferBegin(id) => id = Head(handed)]_vars

\* ------------------------------------------------- recovery and failures
\* an ICE restart is requested while a negotiation is under way, gathering is
\* not in progress and there is a current remote description to recover with
RecoveryCase(optRestart) ==
    /\ optRestart \/ t.restartAtNextOffer
    /\ ~Idle
    /\ pc.iceGatheringState # "gathering"
    /\ pc.currentRemoteDescription # "none"
    /\ ~pc.closed

\* C21: in that case CreateAndSendOffer re-applies the current remote
\* description. If the stack refuses it, the error is returned, no offer is
\* created or emitted and nothing changes. If it accepts it and CreateOffer
\* and SetLocalDescription succeed, the call produces one offer with
\* ICERestart = true and emits it, the epoch is one higher, the timer of the
\* new epoch is the only one armed and the state is AwaitingAnswer. The
\* re-application is attempted in no other case.
C21_RecoverThenRestart ==
    [][\A o \in BOOLEAN, x \in StackOutcomes :
          CreateAndSendOffer(o, x)
             => /\ RecoveryCase(o) <=> last'.reapply # "none"
                /\ last'.reapply = "failed"
                     => /\ last'.err = "stack" /\ last'.emit = "none"
                        /\ NoneProduced
                        /\ t' = t /\ pc' = pc /\ timers' = timers
                /\ last'.reapply = "ok" /\ x = AllOk
                     => /\ Produced /\ last'.restart /\ last'.emit = "offer"
                        /\ last'.err = "nil"
                        /\ AwaitingAnswer'
                        /\ t'.negotiateCounter = t.negotiateCounter + 1
                        /\ t'.signalStateCheckTimer = t'.negotiateCounter
                        /\ \A v \in 1..MaxOffers :
                              timers'[v] = "armed" <=> v = t'.negotiateCounter
      ]_vars

\* the recovery produced the second offer, with ICERestart = true, while the
\* answer to the first was awaited
C21_Witness ==
    /\ last.reapply = "ok"
    /\ last.path = "created"
    /\ last.restart
    /\ obs.created = 2
    /\ obs.answered = 0
    /\ timers[2] = "armed"

\* the elements of q are found in s, in the order of q
InOrderWithin(q, s) ==
    \E f \in [1..Len(q) -> 1..Len(s)] :
       /\ \A i \in 1..Len(q) : s[f[i]] = q[i]
       /\ \A i, j \in 1..Len(q) : i < j => f[i] < f[j]

\* C22: a SetRemoteDescription that returns an error because the ICE
\* credential of the offer cannot be extracted, or because the
\* peer-connection rejects the description (last.srd tells the two apart),
\* changes nothing: not the negotiation state, the failure timers, the stored
\* credential, the pending restart offer, the candidate queue or the
\* peer-connection; it does not go on to onRemoteDescripitonSettled and
\* produces or emits no offer. A later SetRemoteDescription that applies its
\* description hands the queued candidates to the peer-connection one by one
\* in the order of the queue, and a call that reaches the end of its critical
\* section has handed over every one of them and leaves the queue empty.
C22_FailedRemoteDescriptionChangesNothing ==
    [][/\ last'.srd \in {"credential", "rejected"}
            => /\ last'.err # "nil"
               /\ t' = t /\ timers' = timers /\ pc' = pc /\ obs' = obs
               /\ last'.emit = "none"
               /\ run'.srd = NoCall /\ run.srd = NoCall
               /\ run'.settling = run.settling
       /\ last'.srd = "draining"
            => /\ run.srd.next \in 1..Len(t.pendingCandidates)
               /\ pc'.candidates =
                     Append(pc.candidates, t.pendingCandidates[run.srd.next])
               /\ run'.srd.next = run.srd.next + 1
               /\ t' = t
       /\ last'.srd = "finished"
            => /\ run.srd.next = Len(t.pendingCandidates) + 1
               /\ InOrderWithin(t.pendingCandidates, pc.candidates)
               /\ t'.pendingCandidates = <<>>
      ]_vars

\* an answer was rejected while an offer was outstanding and a candidate was
\* queued: the queue, the state and the timer are as they were
C22_Witness ==
    /\ last.srd = "rejected"
    /\ t.pendingCandidates # <<>>
    /\ AwaitingAnswer
    /\ timers[1] = "armed"

\* C23 as stated: when a buffered candidate is refused during the drain, the
\* call returns the error having applied only the candidates queued before
\* that one, and does not go on to onRemoteDescripitonSettled; and the
\* peer-connection is never given the same candidate twice.
C23_DrainStopsAndNeverReapplies ==
    [][/\ last'.srd = "candidate"
            => /\ last'.err # "nil"
               /\ obs'.settled = obs.settled
               /\ run'.settling = run.settling
               /\ run'.srd = NoCall
               /\ pc'.candidates = pc.candidates
       /\ \A i, j \in 1..Len(pc'.candidates) :
             pc'.candidates[i] = pc'.candidates[j] => i = j
      ]_vars

\* C24: an offer attempt in which CreateOffer or SetLocalDescription fails
\* returns the error, hands nothing to onOffer, produces no offer, and leaves
\* the negotiation state, the epoch, the failure timers and the
\* negotiation-pending set as they were before the call (the attempt made at
\* the end of SetRemoteDescription, which has itself changed the state, is not
\* meant).
C24_FailedOfferChangesNothing ==
    [][last'.path \in {"createFailed", "setLocalFailed"} /\ last'.srd = "none"
          => /\ last'.err # "nil"
             /\ last'.emit = "none"
             /\ NoneProduced
             /\ t'.negotiationState = t.negotiationState
             /\ t'.negotiateCounter = t.negotiateCounter
             /\ t'.signalStateCheckTimer = t.signalStateCheckTimer
             /\ timers' = timers
             /\ t'.negotiationPending = t.negotiationPending
      ]_vars

\* CreateOffer failed after the first negotiation had completed and two
\* publishers had been added: both are still pending
C24_Witness ==
    /\ last.path = "createFailed"
    /\ t.negotiationPending = PublisherIDs
    /\ obs.answered = 1
    /\ Idle

\* ------------------------------------------- ICE restart and gathering
\* C28 as stated: no step produces a local offer with ICERestart = true while
\* the ICE gathering state of the peer-connection is Gathering, whether the
\* restart comes from the ICERestart option, from restartAtNextOffer or from a
\* previous answer installed by SetPreviousAnswer.
C28_NoRestartOfferWhileGathering ==
    [][Produced /\ last'.restart => pc.iceGatheringState # "gathering"]_vars

\* ------------------------------------------------------ the aggregator
\* goroutine id makes the recompute, or invokes the callback, in this step
Recomputes(id) == threads[id].at = "stored" /\ threads'[id].at = "locked"
Invokes(id) == threads[id].at = "unlocked" /\ threads'[id].at = "callback"

\* C13: no map ever holds an entry of value OFF, and every recompute (of a
\* report or of the timer) stores the maximum under LOW < MEDIUM < HIGH of the
\* values both maps hold when it runs, OFF when both are empty, and hands
\* that value, or nothing, to onSubscribedMaxQualityChange.
C13_AggregateIsMaximum ==
    [][/\ VideoQuality_OFF \notin ReportedValues(d')
       /\ \A id \in ThreadIDs :
             /\ Recomputes(id)
                  => /\ d'.maxSubscribedQuality = MaxReported(d)
                     /\ threads'[id].arg \in {<<>>, <<MaxReported(d)>>}
             /\ Invokes(id) => dobs'.latest = threads[id].arg
      ]_vars

\* two subscribers and a node have reported, a report of OFF has removed the
\* entry of the one that held the maximum, HIGH, and its recompute is about
\* to notify the lower aggregate
C13_Witness ==
    \E id \in ThreadIDs :
       /\ threads[id].kind = "Notify" /\ threads[id].at = "locked"
       /\ threads[id].arg = <<VideoQuality_MEDIUM>>
       /\ dobs.latest = <<VideoQuality_HIGH>>
       /\ DOMAIN d.maxSubscriberQuality = {"subB"}
       /\ d.maxSubscriberQuality["subB"] = VideoQuality_LOW
       /\ DOMAIN d.maxSubscriberNodeQuality = {"nodeA"}
       /\ d.maxSubscriberNodeQuality["nodeA"] = VideoQuality_MEDIUM

\* the rule of C14: a recompute notifies exactly when its result differs from
\* the stored aggregate or no recompute has run since the latest Start /
\* Restart (or since construction), so the first recompute always notifies
NotifiesOnChangeOrFirst ==
    \A id \in ThreadIDs :
       Recomputes(id)
         => /\ threads'[id].arg # <<>>
                 <=> \/ MaxReported(d) # d.maxSubscribedQuality
                     \/ dobs.computed = <<>>
            /\ dobs.computed = <<>> => threads'[id].arg # <<>>

\* C14 as stated: the rule, and moreover no report that leaves the maximum
\* unchanged produces a callback, and no callback carries the value of the
\* callback before it.
C14_ConsecutiveCallbacksDiffer ==
    [][/\ NotifiesOnChangeOrFirst
       /\ \A id \in ThreadIDs :
             /\ Recomputes(id) /\ threads[id].kind = "Notify" /\ dobs.same
                  => threads'[id].arg = <<>>
             /\ Invokes(id) /\ dobs.latest # <<>>
                  => dobs'.latest # dobs.latest
      ]_vars

\* C14, amended: the rule; a report that leaves the maximum unchanged
\* produces no callback once a recompute has run since the latest Start /
\* Restart; and two consecutive recomputes that notify, with no Start /
\* Restart between them, never hand the same value to the callback.
C14_NotifyOnChangeOrFirst ==
    [][/\ NotifiesOnChangeOrFirst
       /\ \A id \in ThreadIDs :
             /\ Recomputes(id) /\ threads[id].kind = "Notify" /\ dobs.same
                   /\ dobs.computed # <<>>
                  => threads'[id].arg = <<>>
             /\ Recomputes(id) /\ threads'[id].arg # <<>>
                   /\ dobs.computed # <<>>
                  => threads'[id].arg # dobs.computed
      ]_vars

\* MEDIUM was notified since the latest Start / Restart, and the recompute of
\* a report of LOW by another subscriber, which left the maximum unchanged,
\* is about to return without a callback
C14_Witness ==
    \E id \in ThreadIDs :
       /\ threads[id].kind = "Notify" /\ threads[id].at = "locked"
       /\ threads[id].arg = <<>>
       /\ dobs.same
       /\ dobs.computed = <<VideoQuality_MEDIUM>>
       /\ dobs.latest = <<VideoQuality_MEDIUM>>
       /\ DOMAIN d.maxSubscriberQuality = SubscriberIDs
       /\ d.maxSubscriberQuality["subA"] = VideoQuality_MEDIUM
       /\ d.maxSubscriberQuality["subB"] = VideoQuality_LOW
       /\ d.maxQualityTimer = "armed"

\* C15: Start and Restart leave the stored aggregate HIGH, initialized false
\* and the timer armed; while that timer has not fired and nobody has ever
\* reported a quality other than OFF, OFF is neither stored nor notified; and
\* the function of the timer, run with both maps empty, leaves OFF stored and
\* notifies it unless it was already published.
C15_NoOffBeforeGraceEnds ==
    [][\A id \in ThreadIDs :
          /\ StartMaxQualityTimer(id)
               => /\ d'.maxSubscribedQuality = VideoQuality_HIGH
                  /\ ~d'.initialized
                  /\ d'.maxQualityTimer = "armed"
          /\ dobs'.grace /\ ~dobs'.reported
               => /\ d'.maxSubscribedQuality # VideoQuality_OFF
                  /\ threads'[id].arg # <<VideoQuality_OFF>>
          /\ Recomputes(id) /\ threads[id].kind = "qtimer"
                /\ ReportedValues(d) = {}
               => /\ d'.maxSubscribedQuality = VideoQuality_OFF
                  /\ \/ threads'[id].arg = <<VideoQuality_OFF>>
                     \/ d.initialized /\ d.maxSubscribedQuality = VideoQuality_OFF
      ]_vars

\* ------------------------------------------------ concurrent reports
\* C25: once every concurrent NotifySubscriberMaxQuality /
\* NotifySubscriberNodeMaxQuality call has returned, the value that
\* onSubscribedMaxQualityChange was given last is the stored aggregate, and the
\* stored aggregate is the maximum over both maps.
C25_LastDeliveredIsStoredAggregate ==
    Quiet /\ dobs.latest # <<>>
       => /\ dobs.latest = <<d.maxSubscribedQuality>>
          /\ d.maxSubscribedQuality = MaxReported(d)

\* C26: Start and Restart leave the grace timer armed and Stop leaves none;
\* and between the return of Stop and the next Start or Restart the function
\* of the timer makes no recompute and no callback, also when the timer had
\* fired just before Stop.
C26_NoTimerRecomputeAfterStop ==
    [][/\ \A id \in ThreadIDs :
             /\ StartMaxQualityTimer(id) => d'.maxQualityTimer = "armed"
             /\ dobs.stopped /\ threads[id].kind = "qtimer"
                  => ~Recomputes(id) /\ ~Invokes(id)
       /\ dobs'.stopped => d'.maxQualityTimer = "nil"
      ]_vars

====
